---------------------------- MODULE Spec2Model ----------------------------
(***************************************************************************)
(* Model of the system executor service (system/exec/service.go): the      *)
(* session pool, the opening, reuse and closing of SSH terminal sessions,  *)
(* and the execution of command sequences against a session, with the     *)
(* cached working directory and environment, reconnection, sudo handling,  *)
(* secret substitution and output accumulation.                            *)
(*                                                                         *)
(* Text is modelled by TLA+ strings; the Go string functions the service   *)
(* uses are the operators of the first section, computed character by      *)
(* character.  The remote shell, the transport, the criteria evaluator and *)
(* the extractor are the environment: what they answer is drawn from small *)
(* sets in the action that asks them.                                      *)
(***************************************************************************)
EXTENDS Integers, Sequences, FiniteSets, TLC

(***************************************************************************)
(* Go string functions                                                     *)
(***************************************************************************)
CharAt(s, i) == SubSeq(s, i, i)

HasPrefix(s, prefix) ==
    Len(s) >= Len(prefix) /\ SubSeq(s, 1, Len(prefix)) = prefix

HasSuffix(s, suffix) ==
    Len(s) >= Len(suffix) /\ SubSeq(s, Len(s) - Len(suffix) + 1, Len(s)) = suffix

Contains(s, sub) ==
    \E i \in 1..(Len(s) - Len(sub) + 1) : SubSeq(s, i, i + Len(sub) - 1) = sub

\* strings.Index, 1-based; 0 when sub does not occur
Index(s, sub) ==
    IF Contains(s, sub)
    THEN CHOOSE i \in 1..(Len(s) - Len(sub) + 1) :
            /\ SubSeq(s, i, i + Len(sub) - 1) = sub
            /\ \A j \in 1..(i - 1) : SubSeq(s, j, j + Len(sub) - 1) # sub
    ELSE 0

LastIndex(s, sub) ==
    IF Contains(s, sub)
    THEN CHOOSE i \in 1..(Len(s) - Len(sub) + 1) :
            /\ SubSeq(s, i, i + Len(sub) - 1) = sub
            /\ \A j \in (i + 1)..(Len(s) - Len(sub) + 1) :
                  SubSeq(s, j, j + Len(sub) - 1) # sub
    ELSE 0

IsSpace(c) == c \in {" ", "\t", "\n", "\r"}

\* strings.Trim(s, cutset), the cutset given as a set of characters
Trim(s, cutset) ==
    LET keep == {i \in 1..Len(s) : CharAt(s, i) \notin cutset}
    IN  IF keep = {} THEN ""
        ELSE LET lo == CHOOSE i \in keep : \A j \in keep : i <= j
                 hi == CHOOSE i \in keep : \A j \in keep : i >= j
             IN  SubSeq(s, lo, hi)

TrimSpace(s) == Trim(s, {" ", "\t", "\n", "\r"})

\* strings.Replace(s, old, new, 1) for a non-empty old
ReplaceFirst(s, old, new) ==
    LET i == Index(s, old)
    IN  IF i = 0 THEN s
        ELSE SubSeq(s, 1, i - 1) \o new \o SubSeq(s, i + Len(old), Len(s))

\* strings.Replace(s, old, new, -1) for a non-empty old
RECURSIVE ReplaceAll(_, _, _)
ReplaceAll(s, old, new) ==
    LET i == Index(s, old)
    IN  IF i = 0 THEN s
        ELSE SubSeq(s, 1, i - 1) \o new
                \o ReplaceAll(SubSeq(s, i + Len(old), Len(s)), old, new)

\* strings.Split(s, sep) for a non-empty sep
RECURSIVE Split(_, _)
Split(s, sep) ==
    LET i == Index(s, sep)
    IN  IF i = 0 THEN <<s>>
        ELSE <<SubSeq(s, 1, i - 1)>> \o Split(SubSeq(s, i + Len(sep), Len(s)), sep)

\* strings.Join(parts, sep)
RECURSIVE Join(_, _)
Join(parts, sep) ==
    IF Len(parts) = 0 THEN ""
    ELSE IF Len(parts) = 1 THEN parts[1]
    ELSE parts[1] \o sep \o Join(Tail(parts), sep)

\* path.Split: the directory (up to and including the last slash) and the file
PathSplit(p) ==
    LET i == LastIndex(p, "/")
    IN  <<SubSeq(p, 1, i), SubSeq(p, i + 1, Len(p))>>

\* path.Ext: the suffix from the last dot of the last element, or ""
PathExt(p) ==
    LET name == PathSplit(p)[2]
        i    == LastIndex(name, ".")
    IN  IF i = 0 THEN "" ELSE SubSeq(name, i, Len(name))


(***************************************************************************)
(* Bounds and input sets                                                   *)
(***************************************************************************)
\* the longest command sequence of a request
MaxCmds == 2
\* the deepest nesting of executeCommand through authSuperUserIfNeeded that is
\* followed; a deeper call is cut (see ExecuteCommand_Auth)
MaxDepth == 2
\* the longest command sequence of a request with secrets or superuser flags
MaxSudoCmds == 1
\* the number of handler calls (open, close) the processes make together
MaxCalls == 2

Procs == {"p1", "p2"}

\* error values: "" is nil
ErrTerminated == "ssh: terminated"
ErrShell      == "ssh: timeout"
ErrReconnect  == "ssh: failed to reconnect"
ErrCriteria   == "criteria: invalid expression"
ErrExtract    == "extract: invalid expression"
ErrSecret     == "secret: failed to load credentials"
ErrService    == "ssh: failed to connect"
ErrNilSession == "panic: nil pointer dereference"

NoSuchFile       == "-bash: cd: No such file or directory"
PermissionDenied == "Permission denied"
PasswordPrompt   == "Password:"
SorryPrompt      == "Sorry, try again.\nPassword:"

\* the passwords the credentials of the model resolve to
SecretPassword == "s3cret"
SudoPassword   == "r00t"

(***************************************************************************)
(* Collaborators outside system/exec                                       *)
(***************************************************************************)
\* context.Expand: replaces the references to variables of the context state;
\* the context of the model defines the one variable ${dir}
Expand(text) == ReplaceAll(text, "${dir}", "/a")

\* data.Map.ExpandAsText over the execution state: as Expand, plus $stdout,
\* the stdout of the last logged command
ExpandAsText(text, lastStdout) ==
    ReplaceAll(ReplaceAll(text, "${dir}", "/a"), "$stdout", lastStdout)

\* util.EscapedContains: strings.Contains on the stdout with its terminal
\* escape sequences removed; the stdouts of the model hold none
EscapedContains(stdout, fragment) == Contains(stdout, fragment)

\* util.CheckNoSuchFileOrDirectory
CheckNoSuchFileOrDirectory(stdout) == Contains(stdout, "No such file or directory")

\* util.IsPermitted: the stdout carries no permission-denied signature
IsPermitted(stdout) == ~Contains(stdout, "Permission denied")

\* toolbox.AsInt of the text of an exit status
AsInt(text) ==
    IF text = "1" THEN 1 ELSE IF text = "2" THEN 2 ELSE 0

\* fmt's %v of a small integer
IntText(n) == IF n = 1 THEN "1" ELSE IF n = 2 THEN "2" ELSE "0"

\* secret.Service.Expand: each key of secrets that occurs in text is replaced
\* by its password; a key whose credentials cannot be loaded is an error.
\* secrets maps a key to [ok, password].
RECURSIVE SecretsExpandText(_, _, _)
SecretsExpandText(text, secrets, keys) ==
    IF keys = {} THEN text
    ELSE LET k == CHOOSE k \in keys : TRUE
         IN  SecretsExpandText(ReplaceAll(text, k, secrets[k].password),
                               secrets, keys \ {k})

SecretsExpand(text, secrets) ==
    LET used == {k \in DOMAIN secrets : Contains(text, k)}
    IN  IF \E k \in used : ~secrets[k].ok
        THEN [text |-> "", err |-> ErrSecret]
        ELSE [text |-> SecretsExpandText(text, secrets, used), err |-> ""]

\* RunResponse.Add: appends the log entry to Cmd
Add(resp, stdin, stdout, err) ==
    [resp EXCEPT !.Cmd = Append(@, [Stdin |-> stdin, Stdout |-> stdout, Error |-> err])]

\* NewRunResponse
NewRunResponse(sessionID) == [Session |-> sessionID, Cmd |-> <<>>, Output |-> ""]

(***************************************************************************)
(* State                                                                   *)
(***************************************************************************)
VARIABLES
    pool,        \* TerminalSessions(context): fingerprint -> Session object, 0: none
    sessions,    \* the Session objects created so far, by object number
    shellLog,    \* per Session object: what was written to its shell, in order
    deferred,    \* context.Deffer: the teardowns scheduled, in order
    lock,        \* s.Lock(): the process holding the service lock, or ""
    events,      \* the text of the stdin events published, in order
    secretReveal,\* os.Getenv("ENDLY_SECRET_REVEAL") == "true"
    pc,          \* per process: its position in the handler it runs
    sess,        \* per process: the Session object its handler works on
    request,     \* per process: the request of its handler
    cursor,      \* per process: index of the command of the sequence at hand
    response,    \* per process: the RunResponse under construction
    frames,      \* per process: the stack of executeCommand calls
    runCall,     \* per process: the s.run call in progress
    ret,         \* per process: the error the last executeCommand call returned
    pendingEnv,  \* per process: the Options.Env names applyCommandOptions has to set
    outcome,     \* per process: what the last handler returned
    history      \* the calls and returns of open and close, in order

vars == <<pool, sessions, shellLog, deferred, lock, events, secretReveal,
          pc, sess, request, cursor, response, frames, runCall, ret, pendingEnv,
          outcome, history>>


(***************************************************************************)
(* The remote shell: what a Session.Run of a command may answer            *)
(***************************************************************************)
\* the stdout a shell may frame for a command text
ShellStdouts(text) ==
    IF HasPrefix(text, "cd ") /\ ~Contains(text, "&&") THEN {"", NoSuchFile}
    ELSE IF HasPrefix(text, "export ") THEN {""}
    ELSE IF text = "echo $?" THEN {"0", "1"}
    ELSE IF text = "echo $USER" THEN {"u"}
    ELSE IF Contains(text, "sudo ") THEN {"x", PasswordPrompt}
    ELSE IF text \in {SudoPassword, "**sudo**"} THEN {"x", SorryPrompt}
    ELSE IF HasPrefix(text, "cat ") THEN {"x", PermissionDenied}
    ELSE IF HasPrefix(text, "make") THEN {"ok", "error: ok", "warn"}
    ELSE {"", "a", "a\n"}

\* Session.Run's (stdout, error): a framed stdout, or the Terminated error of
\* a lost connection, or another transport error
Replies(text) ==
    {[stdout |-> o, err |-> ""] : o \in ShellStdouts(text)}
        \cup {[stdout |-> "", err |-> ErrTerminated], [stdout |-> "", err |-> ErrShell]}

\* the entries a process adds to a shell's log
Written(log, p, conn, texts) ==
    log \o [i \in 1..Len(texts) |-> [by |-> p, text |-> texts[i], conn |-> conn]]

\* the working directory of a shell just opened
HomeDirectory == "~"

\* the directory a command text asks the shell to change to, "" for none: the
\* argument of a leading cd (up to a following &&) or of a pushd
DirectoryOf(text) ==
    IF HasPrefix(text, "cd ")
    THEN IF Contains(text, " && ")
         THEN SubSeq(text, 4, Index(text, " && ") - 1)
         ELSE TrimSpace(SubSeq(text, 4, Len(text)))
    ELSE IF HasPrefix(text, "pushd ") THEN TrimSpace(SubSeq(text, 7, Len(text)))
    ELSE ""

\* the working directory of the remote shell after it answered reply to text,
\* cwd being the one before: a command that failed in the transport or was
\* answered "No such file or directory" leaves it
ShellDirectory(cwd, text, reply) ==
    IF reply.err # "" \/ CheckNoSuchFileOrDirectory(reply.stdout) \/ DirectoryOf(text) = ""
    THEN cwd
    ELSE DirectoryOf(text)

(***************************************************************************)
(* Session state helpers                                                   *)
(***************************************************************************)
\* map[name] = value
MapPut(m, name, value) ==
    [k \in DOMAIN m \cup {name} |-> IF k = name THEN value ELSE m[k]]

EmptyMap == [k \in {} |-> ""]

\* the export command setEnvVariable formats for name and newValue
SetEnvCommand(name, value) ==
    LET newValue == TrimSpace(Expand(value))
    IN  IF Contains(newValue, " ")
        THEN "export " \o name \o "='" \o newValue \o "'"
        ELSE "export " \o name \o "=" \o newValue

\* SetEnvVariable without the comparison with the cached value: the export
\* is written every time
SetEnvVariable_NoCache(s, name, value, reply) ==
    [session |-> [s EXCEPT !.EnvVariables = MapPut(@, name, Expand(value))],
     wrote   |-> <<SetEnvCommand(name, value)>>,
     err     |-> reply.err]

\* setEnvVariable on session s, the shell answering reply to the export it
\* writes (if it writes one): the session after it, the commands written
\* through rumCommandTemplate, and the error returned
SetEnvVariable(s, name, value, reply) ==
    LET newValue == Expand(value)
    IN  IF name \in DOMAIN s.EnvVariables /\ s.EnvVariables[name] = newValue
        THEN [session |-> s, wrote |-> <<>>, err |-> ""]
        ELSE [session |-> [s EXCEPT !.EnvVariables = MapPut(@, name, newValue)],
              wrote   |-> <<SetEnvCommand(name, value)>>,
              err     |-> reply.err]

\* the directory changeDirectory makes of its argument: the parent of a path
\* whose last element has an extension, without a trailing slash
NormalizeDirectory(directory) ==
    LET parts == PathSplit(directory)
        d     == IF PathExt(parts[2]) # "" THEN parts[1] ELSE directory
    IN  IF Len(d) > 1 /\ HasSuffix(d, "/") THEN SubSeq(d, 1, Len(d) - 1) ELSE d

ChangeDirectoryCommand(directory) == "cd " \o NormalizeDirectory(directory)

\* ChangeDirectory without the comparison with the cached directory: the cd
\* is written every time
ChangeDirectory_NoCache(s, directory, reply) ==
    IF directory = ""
    THEN [session |-> s, wrote |-> <<>>, stdout |-> "", err |-> ""]
    ELSE IF reply.err # ""
    THEN [session |-> s, wrote |-> <<ChangeDirectoryCommand(directory)>>,
          stdout |-> "", err |-> reply.err]
    ELSE [session |-> IF ~CheckNoSuchFileOrDirectory(reply.stdout)
                      THEN [s EXCEPT !.CurrentDirectory = NormalizeDirectory(directory),
                                     !.cwd = ShellDirectory(@,
                                                ChangeDirectoryCommand(directory), reply)]
                      ELSE s,
          wrote   |-> <<ChangeDirectoryCommand(directory)>>,
          stdout  |-> reply.stdout,
          err     |-> ""]

\* changeDirectory without the "No such file or directory" test of line 199
ChangeDirectory_Unchecked(s, directory, reply) ==
    IF directory = "" \/ s.CurrentDirectory = NormalizeDirectory(directory)
    THEN [session |-> s, wrote |-> <<>>, stdout |-> "", err |-> ""]
    ELSE IF reply.err # ""
    THEN [session |-> s, wrote |-> <<ChangeDirectoryCommand(directory)>>,
          stdout |-> "", err |-> reply.err]
    ELSE [session |-> [s EXCEPT !.CurrentDirectory = NormalizeDirectory(directory),
                                !.cwd = ShellDirectory(@,
                                           ChangeDirectoryCommand(directory), reply)],
          wrote   |-> <<ChangeDirectoryCommand(directory)>>,
          stdout  |-> reply.stdout,
          err     |-> ""]

\* changeDirectory on session s, the shell answering reply to the cd it
\* writes (if it writes one)
ChangeDirectory(s, directory, reply) ==
    IF directory = "" \/ s.CurrentDirectory = NormalizeDirectory(directory)
    THEN [session |-> s, wrote |-> <<>>, stdout |-> "", err |-> ""]
    ELSE IF reply.err # ""
    THEN [session |-> s, wrote |-> <<ChangeDirectoryCommand(directory)>>,
          stdout |-> "", err |-> reply.err]
    ELSE [session |-> IF ~CheckNoSuchFileOrDirectory(reply.stdout)
                      THEN [s EXCEPT !.CurrentDirectory = NormalizeDirectory(directory),
                                     !.cwd = ShellDirectory(@,
                                                ChangeDirectoryCommand(directory), reply)]
                      ELSE s,
          wrote   |-> <<ChangeDirectoryCommand(directory)>>,
          stdout  |-> reply.stdout,
          err     |-> ""]

(***************************************************************************)
(* execService.run: Session.Run, and on the Terminated error one           *)
(* reconnection, the rehydration of the remote state and one retry         *)
(***************************************************************************)
\* the locals of a call, and for the record the number of session.Run calls
\* of its command (runs) and of session.Reconnect calls (reconnects) so far
RunIdle ==
    [phase |-> "none", command |-> "", env |-> EmptyMap, pending |-> {},
     currentDirectory |-> "", stdout |-> "", err |-> "", runs |-> 0, reconnects |-> 0]

RunStart(command) == [RunIdle EXCEPT !.phase = "first", !.command = command]

RunDone(call, stdout, err) ==
    [call EXCEPT !.phase = "done", !.stdout = stdout, !.err = err]

\* the first session.Run; a Terminated error leads to the reconnection, any
\* other result is returned
Run_First(p) ==
    /\ runCall[p].phase = "first"
    /\ \E reply \in Replies(runCall[p].command) :
          /\ shellLog' = [shellLog EXCEPT ![sess[p]] =
                 Written(@, p, sessions[sess[p]].conn, <<runCall[p].command>>)]
          /\ runCall' = [runCall EXCEPT ![p] =
                 IF reply.err = ErrTerminated
                 THEN [@ EXCEPT !.phase = "reconnect", !.runs = 1]
                 ELSE RunDone([@ EXCEPT !.runs = 1], reply.stdout, reply.err)]
          /\ sessions' = [sessions EXCEPT ![sess[p]].cwd =
                 ShellDirectory(@, runCall[p].command, reply)]
    /\ UNCHANGED <<history, pool, deferred, lock, events, secretReveal, pc, sess,
                   request, cursor, response, frames, ret, pendingEnv, outcome>>

\* session.Reconnect: its failure is returned; after its success the cached
\* variables and directory are taken aside and cleared
Run_Reconnect(p) ==
    /\ runCall[p].phase = "reconnect"
    /\ \E ok \in BOOLEAN :
          IF ~ok
          THEN /\ runCall' = [runCall EXCEPT ![p] =
                      RunDone([@ EXCEPT !.reconnects = @ + 1], "", ErrReconnect)]
               /\ UNCHANGED sessions
          ELSE /\ runCall' = [runCall EXCEPT ![p] =
                      [@ EXCEPT !.phase = "rehydrate",
                                !.reconnects = @ + 1,
                                !.env = sessions[sess[p]].EnvVariables,
                                !.pending = DOMAIN sessions[sess[p]].EnvVariables,
                                !.currentDirectory = sessions[sess[p]].CurrentDirectory]]
               /\ sessions' = [sessions EXCEPT ![sess[p]] =
                      [@ EXCEPT !.EnvVariables = EmptyMap,
                                !.CurrentDirectory = "",
                                !.conn = @ + 1,
                                !.cwd = HomeDirectory]]
    /\ UNCHANGED <<history, pool, shellLog, deferred, lock, events, secretReveal, pc, sess,
                   request, cursor, response, frames, ret, pendingEnv, outcome>>

\* one turn of the loop over the variables taken aside: setEnvVariable, its
\* error dropped
Run_SetEnv(p) ==
    /\ runCall[p].phase = "rehydrate"
    /\ runCall[p].pending # {}
    /\ \E k \in runCall[p].pending :
       \E reply \in Replies(SetEnvCommand(k, runCall[p].env[k])) :
          LET r == SetEnvVariable(sessions[sess[p]], k, runCall[p].env[k], reply)
          IN  /\ sessions' = [sessions EXCEPT ![sess[p]] = r.session]
              /\ shellLog' = [shellLog EXCEPT ![sess[p]] =
                     Written(@, p, sessions[sess[p]].conn, r.wrote)]
              /\ events' = events \o r.wrote
              /\ runCall' = [runCall EXCEPT ![p].pending = @ \ {k}]
    /\ UNCHANGED <<history, pool, deferred, lock, secretReveal, pc, sess, request, cursor,
                   response, frames, ret, pendingEnv, outcome>>

\* changeDirectory to the directory taken aside, its result dropped
Run_ChangeDirectory(p) ==
    /\ runCall[p].phase = "rehydrate"
    /\ runCall[p].pending = {}
    /\ \E reply \in Replies(ChangeDirectoryCommand(runCall[p].currentDirectory)) :
          LET r == ChangeDirectory(sessions[sess[p]], runCall[p].currentDirectory, reply)
          IN  /\ sessions' = [sessions EXCEPT ![sess[p]] = r.session]
              /\ shellLog' = [shellLog EXCEPT ![sess[p]] =
                     Written(@, p, sessions[sess[p]].conn, r.wrote)]
              /\ events' = events \o r.wrote
              /\ runCall' = [runCall EXCEPT ![p].phase = "retry"]
    /\ UNCHANGED <<history, pool, deferred, lock, secretReveal, pc, sess, request, cursor,
                   response, frames, ret, pendingEnv, outcome>>

\* the retried session.Run, whose result is returned as it is
Run_Retry(p) ==
    /\ runCall[p].phase = "retry"
    /\ \E reply \in Replies(runCall[p].command) :
          /\ shellLog' = [shellLog EXCEPT ![sess[p]] =
                 Written(@, p, sessions[sess[p]].conn, <<runCall[p].command>>)]
          /\ runCall' = [runCall EXCEPT ![p] =
                 RunDone([@ EXCEPT !.runs = @ + 1], reply.stdout, reply.err)]
          /\ sessions' = [sessions EXCEPT ![sess[p]].cwd =
                 ShellDirectory(@, runCall[p].command, reply)]
    /\ UNCHANGED <<history, pool, deferred, lock, events, secretReveal, pc, sess,
                   request, cursor, response, frames, ret, pendingEnv, outcome>>

(***************************************************************************)
(* executeCommand and its helpers                                          *)
(***************************************************************************)
SudoCredentialKey == "**sudo**"
CommandNotFound   == "command not found"

\* Session.ShellPrompt() of the sessions of the model
ShellPrompt == "bash-3.2$"

\* match: the first candidate the stdout contains, or ""
RECURSIVE match(_, _)
match(stdout, candidates) ==
    IF Len(candidates) = 0 THEN ""
    ELSE IF EscapedContains(stdout, candidates[1]) THEN candidates[1]
    ELSE match(stdout, Tail(candidates))

commandAsSuperUser(s, command) ==
    IF s.Username = "root" THEN command
    ELSE IF Len(command) > 1 /\ ~Contains(command, "sudo") THEN "sudo " \o command
    ELSE command

\* validateStdout with the Success fragments looked at first: a stdout with a
\* Success fragment is valid whatever Errors fragment it holds
validateStdout_SuccessFirst(stdout, command, execution) ==
    IF Len(execution.Success) > 0 /\ match(stdout, execution.Success) # ""
    THEN ""
    ELSE IF match(stdout, execution.Errors) # ""
    THEN "encounter error fragment: (" \o match(stdout, execution.Errors)
             \o "), command:" \o command \o ", stdout: " \o stdout
    ELSE IF Len(execution.Success) > 0
    THEN "failed to match any fragment: '" \o Join(execution.Success, ",")
             \o "', command: " \o command \o "; stdout: " \o stdout
    ELSE ""

\* validateStdout: the error, or "" for nil
validateStdout(stdout, command, execution) ==
    LET errorMatch == match(stdout, execution.Errors)
    IN  IF errorMatch # ""
        THEN "encounter error fragment: (" \o errorMatch \o "), command:" \o command
                 \o ", stdout: " \o stdout
        ELSE IF Len(execution.Success) > 0 /\ match(stdout, execution.Success) = ""
        THEN "failed to match any fragment: '" \o Join(execution.Success, ",")
                 \o "', command: " \o command \o "; stdout: " \o stdout
        ELSE ""

hasTerminator(stdout, terminators) ==
    \E i \in 1..Len(terminators) : Index(stdout, terminators[i]) # 0

getTerminators(options, execution) ==
    LET superUserPrompt == ReplaceFirst(ShellPrompt, "$", "#")
    IN  (IF Len(execution.Terminators) > 0 THEN execution.Terminators
         ELSE options.Terminators)
        \o <<"$ ">>
        \o <<IF Contains(superUserPrompt, "bash")
             THEN SubSeq(superUserPrompt, 3, Len(superUserPrompt))
             ELSE superUserPrompt>>
        \o execution.Errors

\* NewExtractCommand(command, when, success, errors)
NewExtractCommand(command, when, success, errors) ==
    [Command |-> command, When |-> when, Success |-> success, Errors |-> errors,
     Terminators |-> <<>>, Extract |-> FALSE]

\* an executeCommand call at its entry
NewFrame(extractCommand) ==
    [cmd |-> extractCommand, secured |-> "", insecure |-> "", terminators |-> <<>>,
     isSuper |-> FALSE, stdout |-> "", err |-> "", at |-> "begin"]

Top(p) == frames[p][Len(frames[p])]

SetTop(p, frame) == [frames EXCEPT ![p] = [@ EXCEPT ![Len(@)] = frame]]

\* the stdout of the last log entry (buildExecutionState's "stdout")
LastStdout(resp) == IF Len(resp.Cmd) > 0 THEN resp.Cmd[Len(resp.Cmd)].Stdout ELSE ""

\* criteria.Evaluate of a When expression: (ok, err)
WhenVerdicts ==
    {[ok |-> TRUE, err |-> ""], [ok |-> FALSE, err |-> ""], [ok |-> FALSE, err |-> ErrCriteria]}

\* a When expression that compares two different literals: it is false in
\* every state
FalseWhen == "1 = 0"

\* criteria.Evaluate of the When expression when (line 353)
Evaluate(when) ==
    IF when = FalseWhen THEN {[ok |-> FALSE, err |-> ""]} ELSE WhenVerdicts

\* the secured command executeCommand makes of the command text (lines 346-367)
SecuredCommand(s, req, resp, extractCommand) ==
    LET expanded == Expand(extractCommand.Command)
        isSuper  == Contains(expanded, "sudo ") \/ req.SuperUser
        text     == IF extractCommand.When = "" /\ Contains(expanded, "$")
                    THEN ExpandAsText(expanded, LastStdout(resp))
                    ELSE expanded
    IN  IF isSuper THEN commandAsSuperUser(s, text) ELSE text

\* LoggedCommand with the reveal of secrets always on
LoggedCommand_Reveal(secured, insecure) == insecure

\* the text of the stdin event and of the log entry (lines 377-381)
LoggedCommand(secured, insecure) == IF secretReveal THEN insecure ELSE secured

\* executeCommand returns err to its caller
ReturnFrom(p, err) ==
    /\ frames' = [frames EXCEPT ![p] = SubSeq(@, 1, Len(@) - 1)]
    /\ ret' = [ret EXCEPT ![p] = err]

\* lines 342-397: the When guard, the secured and the insecure command, the
\* terminators, the stdin event, and the call of s.run
ExecuteCommand_Begin(p) ==
    /\ frames[p] # <<>>
    /\ Top(p).at = "begin"
    /\ LET s   == sessions[sess[p]]
           req == request[p]
           cmd == Top(p).cmd
           expanded == Expand(cmd.Command)
           isSuper  == Contains(expanded, "sudo ") \/ req.SuperUser
           secured  == SecuredCommand(s, req, response[p], cmd)
           terminators == getTerminators(req.Options, cmd)
                            \o (IF isSuper /\ ~s.SuperUSerAuth THEN <<"Password">> ELSE <<>>)
           expansion == SecretsExpand(secured, req.Secrets)
       IN  \E verdict \in (IF cmd.When # "" THEN Evaluate(cmd.When)
                                         ELSE {[ok |-> TRUE, err |-> ""]}) :
              IF ~verdict.ok
              THEN /\ response' = [response EXCEPT ![p] = Add(@, expanded, "", verdict.err)]
                   /\ ReturnFrom(p, verdict.err)
                   /\ UNCHANGED <<events, runCall>>
              ELSE IF expansion.err # ""
              THEN /\ ReturnFrom(p, expansion.err)
                   /\ UNCHANGED <<events, runCall, response>>
              ELSE /\ events' = Append(events, LoggedCommand(secured, expansion.text))
                   /\ runCall' = [runCall EXCEPT ![p] = RunStart(expansion.text)]
                   /\ frames' = SetTop(p, [Top(p) EXCEPT
                          !.secured = LoggedCommand(secured, expansion.text),
                          !.insecure = expansion.text,
                          !.terminators = terminators,
                          !.isSuper = isSuper,
                          !.at = "run"])
                   /\ UNCHANGED <<ret, response>>
    /\ UNCHANGED <<history, pool, sessions, shellLog, deferred, lock, secretReveal, pc, sess,
                   request, cursor, pendingEnv, outcome>>

\* response.Output with the newline that separates it from the next stdout
\* (lines 398-402)
SeparateOutput(output) ==
    IF Len(output) > 0 /\ ~HasSuffix(output, "\n") THEN output \o "\n" ELSE output

\* lines 397-410: the result of s.run, the separator of the output, and the
\* retry with sudo of AutoSudo
ExecuteCommand_AfterRun(p) ==
    /\ frames[p] # <<>>
    /\ Top(p).at = "run"
    /\ runCall[p].phase = "done"
    /\ LET s      == sessions[sess[p]]
           stdout == runCall[p].stdout
           retry  == /\ request[p].AutoSudo /\ ~IsPermitted(stdout)
                     /\ s.Username # "root" /\ ~HasPrefix(Top(p).secured, "sudo")
       IN  /\ response' = [response EXCEPT ![p].Output = SeparateOutput(@)]
           /\ frames' = SetTop(p, [Top(p) EXCEPT
                  !.stdout = stdout, !.err = runCall[p].err,
                  !.at = IF retry THEN "sudoRetry" ELSE "auth"])
           /\ runCall' = [runCall EXCEPT ![p] =
                  IF retry THEN RunStart(commandAsSuperUser(s, Top(p).insecure))
                  ELSE RunIdle]
    /\ UNCHANGED <<history, pool, sessions, shellLog, deferred, lock, events, secretReveal, pc,
                   sess, request, cursor, ret, pendingEnv, outcome>>

\* lines 407-408: the result of retryWithSudo
ExecuteCommand_AfterRetry(p) ==
    /\ frames[p] # <<>>
    /\ Top(p).at = "sudoRetry"
    /\ runCall[p].phase = "done"
    /\ frames' = SetTop(p, [Top(p) EXCEPT
           !.stdout = runCall[p].stdout, !.err = runCall[p].err,
           !.isSuper = TRUE, !.at = "auth"])
    /\ runCall' = [runCall EXCEPT ![p] = RunIdle]
    /\ UNCHANGED <<history, pool, sessions, shellLog, deferred, lock, events, secretReveal, pc,
                   sess, request, cursor, response, ret, pendingEnv, outcome>>

\* lines 418-420: the stdout joins the output; with CheckError and no
\* terminator in the stdout, `echo $?` is run next
OutputStage(p, frame) ==
    LET check == request[p].CheckError /\ ~hasTerminator(frame.stdout, frame.terminators)
    IN  /\ response' = [response EXCEPT ![p].Output = @ \o frame.stdout]
        /\ frames' = SetTop(p, [frame EXCEPT !.at = IF check THEN "echo" ELSE "log"])
        /\ runCall' = [runCall EXCEPT ![p] = IF check THEN RunStart("echo $?") ELSE RunIdle]

\* NeedsPassword without the look at SuperUSerAuth: every stdout with the
\* prompt asks for the exchange
NeedsPassword_Always(s, stdout) == EscapedContains(stdout, "Password")

\* authSuperUserIfNeeded asks for the password exchange
NeedsPassword(s, stdout) ==
    /\ ~(s.SuperUSerAuth
           /\ ~(EscapedContains(stdout, "Sorry, try again.")
                  /\ EscapedContains(stdout, "Password")))
    /\ EscapedContains(stdout, "Password")

\* lines 412-418 with authSuperUserIfNeeded (293-307): for a superuser
\* command whose stdout asks for the password, SuperUSerAuth is set, the
\* request gets its default sudo secret and executeCommand is entered again
\* with the sudo placeholder as command; the error of the command is replaced
\* by the one authSuperUserIfNeeded returns
ExecuteCommand_Auth(p) ==
    /\ frames[p] # <<>>
    /\ Top(p).at = "auth"
    /\ LET s == sessions[sess[p]]
       IN  IF ~Top(p).isSuper
           THEN /\ OutputStage(p, Top(p))
                /\ UNCHANGED <<sessions, request>>
           ELSE IF ~NeedsPassword(s, Top(p).stdout)
           THEN /\ OutputStage(p, [Top(p) EXCEPT !.err = ""])
                /\ UNCHANGED <<sessions, request>>
           ELSE /\ Len(frames[p]) <= MaxDepth
                /\ sessions' = [sessions EXCEPT ![sess[p]].SuperUSerAuth = TRUE]
                /\ request' = [request EXCEPT ![p].Secrets =
                       IF DOMAIN @ = {}
                       THEN [k \in {SudoCredentialKey} |-> request[p].Credentials]
                       ELSE @]
                /\ frames' = [frames EXCEPT ![p] =
                       Append([@ EXCEPT ![Len(@)].at = "authWait"],
                              NewFrame(NewExtractCommand(SudoCredentialKey, "", <<>>,
                                           <<"Password", CommandNotFound>>)))]
                /\ UNCHANGED <<response, runCall>>
    /\ UNCHANGED <<history, pool, shellLog, deferred, lock, events, secretReveal, pc, sess,
                   cursor, ret, pendingEnv, outcome>>

\* lines 304-306 and 413-418: the password exchange returned
ExecuteCommand_AuthReturn(p) ==
    /\ frames[p] # <<>>
    /\ Top(p).at = "authWait"
    /\ IF ret[p] # ""
       THEN /\ ReturnFrom(p, ret[p])
            /\ UNCHANGED <<response, runCall>>
       ELSE /\ OutputStage(p, [Top(p) EXCEPT !.err = ""])
            /\ UNCHANGED ret
    /\ UNCHANGED <<history, pool, sessions, shellLog, deferred, lock, events, secretReveal, pc,
                   sess, request, cursor, pendingEnv, outcome>>

\* ExitStatus that takes every status for 0
ExitStatus_Zero(call) == 0

\* the exit status `echo $?` reported, 0 when it was not run or failed
ExitStatus(call) ==
    IF call.phase = "done" /\ call.err = "" THEN AsInt(TrimSpace(call.stdout)) ELSE 0

\* lines 421-438: the exit status, the log entry, the validation of the
\* stdout and the extraction
ExecuteCommand_Log(p) ==
    /\ frames[p] # <<>>
    /\ \/ Top(p).at = "log"
       \/ Top(p).at = "echo" /\ runCall[p].phase = "done"
    /\ LET f == Top(p)
           invalid == validateStdout(f.stdout, f.secured, f.cmd)
       IN  IF ExitStatus(runCall[p]) # 0
           THEN /\ ReturnFrom(p, "exit code: " \o IntText(ExitStatus(runCall[p]))
                                    \o ", command: " \o f.secured)
                /\ UNCHANGED response
           ELSE /\ response' = [response EXCEPT ![p] = Add(@, f.secured, f.stdout, f.err)]
                /\ IF f.err # "" THEN ReturnFrom(p, f.err)
                   ELSE IF invalid # "" THEN ReturnFrom(p, invalid)
                   ELSE \E extracted \in (IF f.cmd.Extract THEN BOOLEAN ELSE {TRUE}) :
                           ReturnFrom(p, IF extracted THEN "" ELSE ErrExtract)
    /\ runCall' = [runCall EXCEPT ![p] = RunIdle]
    /\ UNCHANGED <<history, pool, sessions, shellLog, deferred, lock, events, secretReveal, pc,
                   sess, request, cursor, pendingEnv, outcome>>

(***************************************************************************)
(* runExtractCommands                                                      *)
(***************************************************************************)
NoRequest ==
    [Target |-> "", Commands |-> <<>>,
     Options |-> [Env |-> EmptyMap, Directory |-> "", Terminators |-> <<>>],
     Secrets |-> EmptyMap, Credentials |-> [ok |-> TRUE, password |-> ""],
     SuperUser |-> FALSE, AutoSudo |-> FALSE, CheckError |-> FALSE]

NoOutcome == [returned |-> FALSE, response |-> NewRunResponse(""), err |-> ""]

\* the handler returns (response, err); a nil response is the empty one
Returns(p, resp, err) ==
    /\ outcome' = [outcome EXCEPT ![p] = [returned |-> TRUE, response |-> resp, err |-> err]]
    /\ pc' = [pc EXCEPT ![p] = "done"]

Fails(p, err) == Returns(p, NewRunResponse(""), err)

\* lines 478-488: the session of the target is taken from the pool
\* (openSession, lines 92-101, with no Env to set)
RunExtractCommands_Begin(p) ==
    /\ pc[p] = "start"
    /\ pool[request[p].Target] # 0
    /\ sess' = [sess EXCEPT ![p] = pool[request[p].Target]]
    /\ response' = [response EXCEPT ![p] = NewRunResponse(request[p].Target)]
    /\ pendingEnv' = [pendingEnv EXCEPT ![p] = DOMAIN request[p].Options.Env]
    /\ pc' = [pc EXCEPT ![p] = "options"]
    /\ UNCHANGED <<history, pool, sessions, shellLog, deferred, lock, events, secretReveal,
                   request, cursor, frames, runCall, ret, outcome>>

\* applyCommandOptions, lines 243-246: one turn of setEnvVariables
ApplyCommandOptions_Env(p) ==
    /\ pc[p] = "options"
    /\ pendingEnv[p] # {}
    /\ \E k \in pendingEnv[p] :
       \E reply \in Replies(SetEnvCommand(k, request[p].Options.Env[k])) :
          LET r == SetEnvVariable(sessions[sess[p]], k, request[p].Options.Env[k], reply)
          IN  /\ sessions' = [sessions EXCEPT ![sess[p]] = r.session]
              /\ shellLog' = [shellLog EXCEPT ![sess[p]] =
                     Written(@, p, sessions[sess[p]].conn, r.wrote)]
              /\ events' = events \o r.wrote
              /\ pendingEnv' = [pendingEnv EXCEPT ![p] = @ \ {k}]
              /\ IF r.err # "" THEN Fails(p, r.err) ELSE UNCHANGED <<pc, outcome>>
    /\ UNCHANGED <<history, pool, deferred, lock, secretReveal, sess, request, cursor, response,
                   frames, runCall, ret>>

\* applyCommandOptions, lines 247-254, and lines 489-493: the directory of
\* the options, then the fresh response
ApplyCommandOptions_Directory(p) ==
    /\ pc[p] = "options"
    /\ pendingEnv[p] = {}
    /\ LET directory == Expand(request[p].Options.Directory)
       IN  \E reply \in Replies(ChangeDirectoryCommand(directory)) :
              LET r == ChangeDirectory(sessions[sess[p]], directory, reply)
              IN  /\ sessions' = [sessions EXCEPT ![sess[p]] = r.session]
                  /\ shellLog' = [shellLog EXCEPT ![sess[p]] =
                         Written(@, p, sessions[sess[p]].conn, r.wrote)]
                  /\ events' = events \o r.wrote
                  /\ IF r.err # "" THEN Fails(p, r.err)
                     ELSE /\ pc' = [pc EXCEPT ![p] = "loop"]
                          /\ UNCHANGED outcome
    /\ cursor' = [cursor EXCEPT ![p] = 1]
    /\ response' = [response EXCEPT ![p] = NewRunResponse(request[p].Target)]
    /\ UNCHANGED <<history, pool, deferred, lock, secretReveal, sess, request, frames, runCall,
                   ret, pendingEnv>>

\* the command of the sequence at hand, expanded (line 495)
CurrentCommand(p) == Expand(request[p].Commands[cursor[p]].Command)

\* lines 496-498: a command with `rm ` that names the current directory
\* resets it
ResetOnRm(s, command) ==
    IF Contains(command, "rm ") /\ Contains(command, s.CurrentDirectory)
    THEN [s EXCEPT !.CurrentDirectory = ""]
    ELSE s

IsBareCd(command) == HasPrefix(command, "cd ") /\ ~Contains(command, "&&")

IsBareExport(command) ==
    /\ ~IsBareCd(command)
    /\ HasPrefix(command, "export ") /\ ~Contains(command, "&&")
    /\ Len(Split(SubSeq(command, 8, Len(command)), "=")) = 2

\* lines 499-511: a bare cd goes to changeDirectory; its stdout is logged
\* and validated
RunExtractCommands_Cd(p) ==
    /\ pc[p] = "loop"
    /\ cursor[p] <= Len(request[p].Commands)
    /\ IsBareCd(CurrentCommand(p))
    /\ LET command   == CurrentCommand(p)
           s         == ResetOnRm(sessions[sess[p]], command)
           directory == TrimSpace(SubSeq(command, 4, Len(command)))
       IN  \E reply \in Replies(ChangeDirectoryCommand(directory)) :
              LET r   == ChangeDirectory(s, directory, reply)
                  err == IF r.err # "" THEN r.err
                         ELSE validateStdout(r.stdout, command,
                                             request[p].Commands[cursor[p]])
              IN  /\ sessions' = [sessions EXCEPT ![sess[p]] = r.session]
                  /\ shellLog' = [shellLog EXCEPT ![sess[p]] =
                         Written(@, p, sessions[sess[p]].conn, r.wrote)]
                  /\ events' = events \o r.wrote
                  /\ response' = [response EXCEPT ![p] = Add(@, command, r.stdout, r.err)]
                  /\ IF err # "" THEN Fails(p, err) /\ UNCHANGED cursor
                     ELSE /\ cursor' = [cursor EXCEPT ![p] = @ + 1]
                          /\ UNCHANGED <<pc, outcome>>
    /\ UNCHANGED <<history, pool, deferred, lock, secretReveal, sess, request, frames, runCall,
                   ret, pendingEnv>>

\* lines 514-525: a bare export with one `=` goes to setEnvVariable; its
\* error is logged and the loop goes on
RunExtractCommands_Export(p) ==
    /\ pc[p] = "loop"
    /\ cursor[p] <= Len(request[p].Commands)
    /\ IsBareExport(CurrentCommand(p))
    /\ LET command == CurrentCommand(p)
           s       == ResetOnRm(sessions[sess[p]], command)
           pair    == Split(SubSeq(command, 8, Len(command)), "=")
           key     == TrimSpace(pair[1])
           value   == Trim(TrimSpace(pair[2]), {"'", "\""})
       IN  \E reply \in Replies(SetEnvCommand(key, value)) :
              LET r == SetEnvVariable(s, key, value, reply)
              IN  /\ sessions' = [sessions EXCEPT ![sess[p]] = r.session]
                  /\ shellLog' = [shellLog EXCEPT ![sess[p]] =
                         Written(@, p, sessions[sess[p]].conn, r.wrote)]
                  /\ events' = events \o r.wrote
                  /\ response' = [response EXCEPT ![p] = Add(@, command, "", r.err)]
    /\ cursor' = [cursor EXCEPT ![p] = @ + 1]
    /\ UNCHANGED <<history, pool, deferred, lock, secretReveal, pc, sess, request, frames,
                   runCall, ret, pendingEnv, outcome>>

\* lines 496-529 for any other command: a compound cd resets the cached
\* directory, an export that is not bare resets the cached variables, and the
\* command goes to executeCommand
RunExtractCommands_Execute(p) ==
    /\ pc[p] = "loop"
    /\ cursor[p] <= Len(request[p].Commands)
    /\ ~IsBareCd(CurrentCommand(p))
    /\ ~IsBareExport(CurrentCommand(p))
    /\ LET command == CurrentCommand(p)
           s1 == ResetOnRm(sessions[sess[p]], command)
           s2 == IF HasPrefix(command, "cd ") THEN [s1 EXCEPT !.CurrentDirectory = ""] ELSE s1
           s3 == IF HasPrefix(command, "export ") THEN [s2 EXCEPT !.EnvVariables = EmptyMap] ELSE s2
       IN  sessions' = [sessions EXCEPT ![sess[p]] = s3]
    /\ frames' = [frames EXCEPT ![p] = <<NewFrame(request[p].Commands[cursor[p]])>>]
    /\ pc' = [pc EXCEPT ![p] = "exec"]
    /\ UNCHANGED <<history, pool, shellLog, deferred, lock, events, secretReveal, sess, request,
                   cursor, response, runCall, ret, pendingEnv, outcome>>

\* lines 529-533: executeCommand returned
RunExtractCommands_Executed(p) ==
    /\ pc[p] = "exec"
    /\ frames[p] = <<>>
    /\ IF ret[p] # ""
       THEN Fails(p, ret[p]) /\ UNCHANGED cursor
       ELSE /\ cursor' = [cursor EXCEPT ![p] = @ + 1]
            /\ pc' = [pc EXCEPT ![p] = "loop"]
            /\ UNCHANGED outcome
    /\ UNCHANGED <<history, pool, sessions, shellLog, deferred, lock, events, secretReveal, sess,
                   request, response, frames, runCall, ret, pendingEnv>>

\* line 535: the sequence is through
RunExtractCommands_Return(p) ==
    /\ pc[p] = "loop"
    /\ cursor[p] > Len(request[p].Commands)
    /\ Returns(p, response[p], "")
    /\ UNCHANGED <<history, pool, sessions, shellLog, deferred, lock, events, secretReveal, sess,
                   request, cursor, response, frames, runCall, ret, pendingEnv>>

(***************************************************************************)
(* Sequences of commands on one open session                               *)
(***************************************************************************)
Fingerprints == {"f1", "f2"}

\* model.NewSession and the MultiCommandSession opened for it: service is the
\* ssh.Service of the session, shell its MultiCommandSession, closed whether
\* Session.Close was called, cwd the working directory of the remote shell
\* (the cached directory when there is one, as a cd that succeeded leaves it)
NewSession(id, username, directory) ==
    [ID |-> id, EnvVariables |-> EmptyMap, CurrentDirectory |-> directory,
     SuperUSerAuth |-> FALSE, Username |-> username, conn |-> 1,
     service |-> "open", shell |-> "open", closed |-> FALSE,
     cwd |-> IF directory = "" THEN HomeDirectory ELSE directory]

Cmd(text) == NewExtractCommand(text, "", <<>>, <<>>)

SeqsUpTo(S, n) == UNION {[1..k -> S] : k \in 0..n}

PlainRequest(commands) == [NoRequest EXCEPT !.Target = "f1", !.Commands = commands]

\* the commands of the sequences: bare and compound cd, bare export and an
\* export with two `=`, a plain command, an rm of the current directory
SeqCommands ==
    {Cmd("cd /a"), Cmd("cd /a.b/c.d"), Cmd("cd /rm x"), Cmd("export K=v"),
     Cmd("export K=a=b"), Cmd("ls"), Cmd("rm -r /a")}

SeqOptions ==
    {NoRequest.Options,
     [Env |-> [k \in {"E"} |-> "1 2"], Directory |-> "/b/", Terminators |-> <<>>]}

SeqRequests ==
    {[PlainRequest(cs) EXCEPT !.Options = o] :
        cs \in SeqsUpTo(SeqCommands, MaxCmds), o \in SeqOptions}

\* one session is open and pooled under f1, as openSession leaves it with
\* directory as its CurrentDirectory ("" when the cd of line 143 failed);
\* process p1 is about to run a request on it
InitSequence(requests, usernames, directory) ==
    /\ pool = [f \in Fingerprints |-> IF f = "f1" THEN 1 ELSE 0]
    /\ \E u \in usernames : sessions = <<NewSession("f1", u, directory)>>
    /\ shellLog = <<<<>>>>
    /\ deferred = <<>>
    /\ lock = ""
    /\ events = <<>>
    /\ secretReveal \in BOOLEAN
    /\ pc = [p \in Procs |-> IF p = "p1" THEN "start" ELSE "idle"]
    /\ sess = [p \in Procs |-> 0]
    /\ \E r \in requests : request = [p \in Procs |-> IF p = "p1" THEN r ELSE NoRequest]
    /\ cursor = [p \in Procs |-> 0]
    /\ response = [p \in Procs |-> NewRunResponse("")]
    /\ frames = [p \in Procs |-> <<>>]
    /\ runCall = [p \in Procs |-> RunIdle]
    /\ ret = [p \in Procs |-> ""]
    /\ pendingEnv = [p \in Procs |-> {}]
    /\ outcome = [p \in Procs |-> NoOutcome]
    /\ history = <<>>

InitSeq == InitSequence(SeqRequests, {"u"}, "/w") /\ secretReveal = FALSE

NextSeq ==
    \E p \in Procs :
        \/ RunExtractCommands_Begin(p)
        \/ ApplyCommandOptions_Env(p)
        \/ ApplyCommandOptions_Directory(p)
        \/ RunExtractCommands_Cd(p)
        \/ RunExtractCommands_Export(p)
        \/ RunExtractCommands_Execute(p)
        \/ RunExtractCommands_Executed(p)
        \/ RunExtractCommands_Return(p)
        \/ ExecuteCommand_Begin(p)
        \/ ExecuteCommand_AfterRun(p)
        \/ ExecuteCommand_Auth(p)
        \/ ExecuteCommand_Log(p)
        \/ Run_First(p)
        \/ Run_Reconnect(p)
        \/ Run_SetEnv(p)
        \/ Run_ChangeDirectory(p)
        \/ Run_Retry(p)

SpecSeq == InitSeq /\ [][NextSeq]_vars

(***************************************************************************)
(* Commands with secrets and superuser commands on one open session        *)
(***************************************************************************)
\* request.Secrets: none, the key **k** with credentials that load, the same
\* with the sudo key besides, and the key **k** with credentials that do not
SudoSecrets ==
    {EmptyMap,
     [k \in {"**k**"} |-> [ok |-> TRUE, password |-> SecretPassword]],
     [k \in {"**k**", SudoCredentialKey} |->
        [ok |-> TRUE, password |-> IF k = "**k**" THEN SecretPassword ELSE SudoPassword]],
     [k \in {"**k**"} |-> [ok |-> FALSE, password |-> ""]]}

SudoCommands == {Cmd("cat **k**"), Cmd("sudo make **k**"), Cmd("ls")}

SudoRequests ==
    {[PlainRequest(cs) EXCEPT !.Secrets = secrets,
                              !.Credentials = [ok |-> TRUE, password |-> SudoPassword],
                              !.SuperUser = su, !.AutoSudo = auto, !.CheckError = check] :
        cs \in SeqsUpTo(SudoCommands, MaxSudoCmds), secrets \in SudoSecrets,
        su \in BOOLEAN, auto \in BOOLEAN, check \in BOOLEAN}

InitSudo == InitSequence(SudoRequests, {"u", "root"}, "")

NextSudo ==
    \E p \in Procs :
        \/ RunExtractCommands_Begin(p)
        \/ ApplyCommandOptions_Directory(p)
        \/ RunExtractCommands_Execute(p)
        \/ RunExtractCommands_Executed(p)
        \/ RunExtractCommands_Return(p)
        \/ ExecuteCommand_Begin(p)
        \/ ExecuteCommand_AfterRun(p)
        \/ ExecuteCommand_AfterRetry(p)
        \/ ExecuteCommand_Auth(p)
        \/ ExecuteCommand_AuthReturn(p)
        \/ ExecuteCommand_Log(p)
        \/ Run_First(p)
        \/ Run_Reconnect(p)
        \/ Run_ChangeDirectory(p)
        \/ Run_Retry(p)

SpecSudo == InitSudo /\ [][NextSudo]_vars

(***************************************************************************)
(* The pool of sessions: open and close called by two processes            *)
(***************************************************************************)
\* OpenSessionRequest
OpenSessionRequest(target, env, transient) ==
    [Target |-> target, Env |-> env, Transient |-> transient]

OpenEnvs == {EmptyMap, [k \in {"K"} |-> "v"]}

\* the commands detectOperatingSystem runs, in order (lines 587-634)
DetectCommands == <<"lsb_release -a", "uname -m", "echo $PATH", "echo $USER">>

\* os.Getwd() of the process that runs the service
WorkingDirectory == "/w"

\* the number of handler calls made so far
Calls == Cardinality({k \in 1..Len(history) : history[k].kind = "call"})

\* the Session objects made for fingerprint f whose shell was opened
ShellsOf(f, objects) ==
    {i \in 1..Len(objects) : objects[i].ID = f /\ objects[i].shell # "none"}

\* an entry of the history
HistoryEntry(kind, p, op, f, err, session, objects) ==
    [kind |-> kind, by |-> p, op |-> op, f |-> f, err |-> err, sess |-> session,
     shells |-> ShellsOf(f, objects)]

\* openSession returns (session, err) to open (lines 31-39)
OpenReturns(p, session, err, objects) ==
    /\ outcome' = [outcome EXCEPT ![p] =
           [returned |-> TRUE, response |-> NewRunResponse(""), err |-> err]]
    /\ history' = Append(history,
           HistoryEntry("return", p, "open", request[p].Target, err, session, objects))
    /\ pc' = [pc EXCEPT ![p] = "done"]

\* a process calls open
Call_Open(p) ==
    /\ pc[p] \in {"idle", "done"}
    /\ Calls < MaxCalls
    /\ \E f \in Fingerprints, env \in OpenEnvs, transient \in BOOLEAN :
          /\ request' = [request EXCEPT ![p] = OpenSessionRequest(f, env, transient)]
          /\ history' = Append(history, HistoryEntry("call", p, "open", f, "", 0, sessions))
    /\ pc' = [pc EXCEPT ![p] = "open"]
    /\ sess' = [sess EXCEPT ![p] = 0]
    /\ outcome' = [outcome EXCEPT ![p] = NoOutcome]
    /\ UNCHANGED <<pool, sessions, shellLog, deferred, lock, events, secretReveal, cursor,
                   response, frames, runCall, ret, pendingEnv>>

\* lines 72-82: the sessions of the context are taken under the lock
Open_Begin(p) ==
    /\ pc[p] = "open"
    /\ lock = ""
    /\ pc' = [pc EXCEPT ![p] = "lookup"]
    /\ UNCHANGED <<history, pool, sessions, shellLog, deferred, lock, events, secretReveal,
                   sess, request, cursor, response, frames, runCall, ret, pendingEnv,
                   outcome>>

\* Open_Lookup that never finds the fingerprint
Open_Lookup_Miss(p) ==
    /\ pc[p] = "lookup"
    /\ pc' = [pc EXCEPT ![p] = "create"]
    /\ UNCHANGED <<history, pool, sessions, shellLog, deferred, lock, events, secretReveal,
                   sess, request, cursor, response, frames, runCall, ret, pendingEnv,
                   outcome>>

\* lines 92-93: sessions.Has(sessionID), read without the lock
Open_Lookup(p) ==
    /\ pc[p] = "lookup"
    /\ pc' = [pc EXCEPT ![p] = IF pool[request[p].Target] # 0 THEN "reuse" ELSE "create"]
    /\ UNCHANGED <<history, pool, sessions, shellLog, deferred, lock, events, secretReveal,
                   sess, request, cursor, response, frames, runCall, ret, pendingEnv,
                   outcome>>

\* lines 94-96: the session found is read under the lock; a session closed
\* since the lookup is nil, and initSession or open dereferences it
Open_Reuse(p) ==
    /\ pc[p] = "reuse"
    /\ lock = ""
    /\ IF pool[request[p].Target] = 0
       THEN /\ OpenReturns(p, 0, ErrNilSession, sessions)
            /\ UNCHANGED <<sess, pendingEnv>>
       ELSE /\ sess' = [sess EXCEPT ![p] = pool[request[p].Target]]
            /\ pendingEnv' = [pendingEnv EXCEPT ![p] = DOMAIN request[p].Env]
            /\ pc' = [pc EXCEPT ![p] = "reuseInit"]
            /\ UNCHANGED <<outcome, history>>
    /\ UNCHANGED <<pool, sessions, shellLog, deferred, lock, events, secretReveal, request,
                   cursor, response, frames, runCall, ret>>

\* lines 103-129: the ssh service, the Session and its MultiCommandSession are
\* made; unless the request is Transient the close of the service and the
\* closeSession of the fingerprint are deferred to the teardown of the context
Open_Create(p) ==
    /\ pc[p] = "create"
    /\ LET f == request[p].Target
           i == Len(sessions) + 1
           closeService == IF request[p].Transient THEN <<>>
                           ELSE <<[kind |-> "service", sess |-> i, id |-> f]>>
           closeSession == IF request[p].Transient THEN <<>>
                           ELSE <<[kind |-> "closeSession", sess |-> i, id |-> f]>>
       IN  \E made \in {"none", "service", "shell"} :
              IF made = "none"
              THEN /\ OpenReturns(p, 0, ErrService, sessions)
                   /\ UNCHANGED <<sessions, shellLog, deferred, sess, pendingEnv>>
              ELSE IF made = "service"
              THEN /\ sessions' = Append(sessions, [NewSession(f, "", "") EXCEPT !.shell = "none"])
                   /\ shellLog' = Append(shellLog, <<>>)
                   /\ deferred' = deferred \o closeService
                   /\ OpenReturns(p, 0, ErrService, sessions')
                   /\ UNCHANGED <<sess, pendingEnv>>
              ELSE /\ sessions' = Append(sessions, NewSession(f, "", ""))
                   /\ shellLog' = Append(shellLog, <<>>)
                   /\ deferred' = deferred \o closeService \o closeSession
                   /\ sess' = [sess EXCEPT ![p] = i]
                   /\ pendingEnv' = [pendingEnv EXCEPT ![p] = DOMAIN request[p].Env]
                   /\ pc' = [pc EXCEPT ![p] = "init"]
                   /\ UNCHANGED <<outcome, history>>
    /\ UNCHANGED <<pool, lock, events, secretReveal, request, cursor, response, frames,
                   runCall, ret>>

\* initSession (lines 61-69), called for a session found (line 97) and for a
\* session made (line 130): one turn of its loop, or its return
Open_InitSession(p) ==
    /\ pc[p] \in {"reuseInit", "init"}
    /\ IF pendingEnv[p] = {}
       THEN /\ IF pc[p] = "init"
               THEN /\ pc' = [pc EXCEPT ![p] = "lock"]
                    /\ UNCHANGED <<outcome, history>>
               ELSE OpenReturns(p, sess[p], "", sessions)
            /\ UNCHANGED <<sessions, shellLog, events, pendingEnv>>
       ELSE \E k \in pendingEnv[p] :
            \E reply \in Replies(SetEnvCommand(k, request[p].Env[k])) :
               LET r == SetEnvVariable(sessions[sess[p]], k, request[p].Env[k], reply)
               IN  /\ sessions' = [sessions EXCEPT ![sess[p]] = r.session]
                   /\ shellLog' = [shellLog EXCEPT ![sess[p]] =
                          Written(@, p, sessions[sess[p]].conn, r.wrote)]
                   /\ events' = events \o r.wrote
                   /\ pendingEnv' = [pendingEnv EXCEPT ![p] = @ \ {k}]
                   /\ IF r.err # "" THEN OpenReturns(p, 0, r.err, sessions')
                      ELSE UNCHANGED <<pc, outcome, history>>
    /\ UNCHANGED <<pool, deferred, lock, secretReveal, sess, request, cursor, response,
                   frames, runCall, ret>>

\* line 134: s.Lock()
Open_Lock(p) ==
    /\ pc[p] = "lock"
    /\ lock = ""
    /\ lock' = p
    /\ pc' = [pc EXCEPT ![p] = "insert"]
    /\ UNCHANGED <<history, pool, sessions, shellLog, deferred, events, secretReveal, sess,
                   request, cursor, response, frames, runCall, ret, pendingEnv, outcome>>

\* lines 135-136: the session is put in the pool and the lock released
Open_Insert(p) ==
    /\ pc[p] = "insert"
    /\ lock = p
    /\ pool' = [pool EXCEPT ![request[p].Target] = sess[p]]
    /\ lock' = ""
    /\ pc' = [pc EXCEPT ![p] = "detect"]
    /\ UNCHANGED <<history, sessions, shellLog, deferred, events, secretReveal, sess,
                   request, cursor, response, frames, runCall, ret, pendingEnv, outcome>>

\* lines 137-140 with detectOperatingSystem (583-636): its commands are run
\* until one fails; the stdout of the last is the Username
Open_DetectOS(p) ==
    /\ pc[p] = "detect"
    /\ \E n \in 1..Len(DetectCommands) :
       \E reply \in Replies(DetectCommands[n]) :
          /\ reply.err = "" => n = Len(DetectCommands)
          /\ reply.err # ErrTerminated
          /\ shellLog' = [shellLog EXCEPT ![sess[p]] =
                 Written(@, p, sessions[sess[p]].conn, SubSeq(DetectCommands, 1, n))]
          /\ IF reply.err # ""
             THEN /\ OpenReturns(p, 0, reply.err, sessions)
                  /\ UNCHANGED sessions
             ELSE /\ sessions' = [sessions EXCEPT ![sess[p]].Username = reply.stdout]
                  /\ pc' = [pc EXCEPT ![p] = "getwd"]
                  /\ UNCHANGED <<outcome, history>>
    /\ UNCHANGED <<pool, deferred, lock, events, secretReveal, sess, request, cursor,
                   response, frames, runCall, ret, pendingEnv>>

\* lines 142-147: cd to the working directory of the process, cached when
\* Session.Run returned no error
Open_Getwd(p) ==
    /\ pc[p] = "getwd"
    /\ \E reply \in Replies("cd " \o WorkingDirectory) :
          /\ reply.err # ErrTerminated
          /\ shellLog' = [shellLog EXCEPT ![sess[p]] =
                 Written(@, p, sessions[sess[p]].conn, <<"cd " \o WorkingDirectory>>)]
          /\ sessions' = [sessions EXCEPT
                 ![sess[p]].CurrentDirectory =
                     IF reply.err = "" THEN WorkingDirectory ELSE @,
                 ![sess[p]].cwd = ShellDirectory(@, "cd " \o WorkingDirectory, reply)]
          /\ OpenReturns(p, sess[p], "", sessions')
    /\ UNCHANGED <<pool, deferred, lock, events, secretReveal, sess, request, cursor,
                   response, frames, runCall, ret, pendingEnv>>

\* closeSession (lines 538-548): the shell and the session found in the pool
\* are closed and the fingerprint is deleted
Close(p) ==
    /\ pc[p] \in {"idle", "done"}
    /\ Calls < MaxCalls
    /\ \E f \in Fingerprints :
          /\ history' = history \o <<HistoryEntry("call", p, "close", f, "", pool[f], sessions),
                                     HistoryEntry("return", p, "close", f, "", pool[f], sessions)>>
          /\ IF pool[f] # 0
             THEN /\ sessions' = [sessions EXCEPT ![pool[f]] =
                         [@ EXCEPT !.shell = "closed", !.closed = TRUE]]
                  /\ pool' = [pool EXCEPT ![f] = 0]
             ELSE UNCHANGED <<pool, sessions>>
    /\ UNCHANGED <<shellLog, deferred, lock, events, secretReveal, pc, sess, request,
                   cursor, response, frames, runCall, ret, pendingEnv, outcome>>

Init ==
    /\ pool = [f \in Fingerprints |-> 0]
    /\ sessions = <<>>
    /\ shellLog = <<>>
    /\ deferred = <<>>
    /\ lock = ""
    /\ events = <<>>
    /\ secretReveal = FALSE
    /\ pc = [p \in Procs |-> "idle"]
    /\ sess = [p \in Procs |-> 0]
    /\ request = [p \in Procs |-> NoRequest]
    /\ cursor = [p \in Procs |-> 0]
    /\ response = [p \in Procs |-> NewRunResponse("")]
    /\ frames = [p \in Procs |-> <<>>]
    /\ runCall = [p \in Procs |-> RunIdle]
    /\ ret = [p \in Procs |-> ""]
    /\ pendingEnv = [p \in Procs |-> {}]
    /\ outcome = [p \in Procs |-> NoOutcome]
    /\ history = <<>>

Next ==
    \E p \in Procs :
        \/ Call_Open(p)
        \/ Open_Begin(p)
        \/ Open_Lookup(p)
        \/ Open_Reuse(p)
        \/ Open_Create(p)
        \/ Open_InitSession(p)
        \/ Open_Lock(p)
        \/ Open_Insert(p)
        \/ Open_DetectOS(p)
        \/ Open_Getwd(p)
        \/ Close(p)

Spec == Init /\ [][Next]_vars

(***************************************************************************)
(* Two requests run at the same time on one session                        *)
(***************************************************************************)
ShareCommands == {Cmd("ls"), Cmd("cd /a"), Cmd("export K=w")}

ShareRequests == {PlainRequest(<<c>>) : c \in ShareCommands}

\* one session with a cached variable and directory is pooled under f1; both
\* processes are about to run a request on it
InitShare ==
    /\ pool = [f \in Fingerprints |-> IF f = "f1" THEN 1 ELSE 0]
    /\ sessions = <<[NewSession("f1", "u", WorkingDirectory) EXCEPT
                        !.EnvVariables = [k \in {"K"} |-> "v"]]>>
    /\ shellLog = <<<<>>>>
    /\ deferred = <<>>
    /\ lock = ""
    /\ events = <<>>
    /\ secretReveal = FALSE
    /\ pc = [p \in Procs |-> "start"]
    /\ sess = [p \in Procs |-> 0]
    /\ request \in [Procs -> ShareRequests]
    /\ cursor = [p \in Procs |-> 0]
    /\ response = [p \in Procs |-> NewRunResponse("")]
    /\ frames = [p \in Procs |-> <<>>]
    /\ runCall = [p \in Procs |-> RunIdle]
    /\ ret = [p \in Procs |-> ""]
    /\ pendingEnv = [p \in Procs |-> {}]
    /\ outcome = [p \in Procs |-> NoOutcome]
    /\ history = <<>>

NextShare ==
    \E p \in Procs :
        \/ RunExtractCommands_Begin(p)
        \/ ApplyCommandOptions_Directory(p)
        \/ RunExtractCommands_Cd(p)
        \/ RunExtractCommands_Export(p)
        \/ RunExtractCommands_Execute(p)
        \/ RunExtractCommands_Executed(p)
        \/ RunExtractCommands_Return(p)
        \/ ExecuteCommand_Begin(p)
        \/ ExecuteCommand_AfterRun(p)
        \/ ExecuteCommand_Auth(p)
        \/ ExecuteCommand_Log(p)
        \/ Run_First(p)
        \/ Run_Reconnect(p)
        \/ Run_SetEnv(p)
        \/ Run_ChangeDirectory(p)
        \/ Run_Retry(p)

SpecShare == InitShare /\ [][NextShare]_vars

(***************************************************************************)
(* Properties of the sequences (SpecSeq)                                   *)
(***************************************************************************)
\* the texts process p wrote to the shell of its session over the connection
\* the session has now
WrittenNow(p) ==
    {shellLog[sess[p]][i].text : i \in
        {j \in 1..Len(shellLog[sess[p]]) :
            /\ shellLog[sess[p]][j].by = p
            /\ shellLog[sess[p]][j].conn = sessions[sess[p]].conn}}

\* the number of times text was written to the shell of p's session
TimesWritten(p, text) ==
    Cardinality({i \in 1..Len(shellLog[sess[p]]) : shellLog[sess[p]][i].text = text})

\* what holds of every s.run call: a Terminated error of session.Run leads to
\* one Reconnect; its failure is returned with no retry; after its success the
\* cached variables and directory are cleared, every variable cached before is
\* exported again, and the command is run once more, whatever that run
\* returns being the result: never a second Reconnect, never a third run
RunDiscipline ==
    \A p \in Procs :
        LET c == runCall[p]
        IN  c.phase # "none" =>
              LET s == sessions[sess[p]]
              IN  /\ c.phase = "first" => c.runs = 0 /\ c.reconnects = 0
                  /\ c.phase = "reconnect" => c.runs = 1 /\ c.reconnects = 0
                  /\ c.phase \in {"rehydrate", "retry"} => c.runs = 1 /\ c.reconnects = 1
                  /\ c.phase = "done" =>
                        /\ c.runs \in {1, 2} /\ c.reconnects <= 1
                        /\ c.runs = 2 => c.reconnects = 1
                        /\ c.err = ErrReconnect => c.runs = 1 /\ c.reconnects = 1
                  /\ c.phase = "rehydrate" =>
                        /\ DOMAIN s.EnvVariables = DOMAIN c.env \ c.pending
                        /\ s.CurrentDirectory = ""
                        /\ \A k \in DOMAIN c.env \ c.pending :
                              SetEnvCommand(k, c.env[k]) \in WrittenNow(p)
                  /\ c.phase = "retry" =>
                        /\ \A k \in DOMAIN c.env : SetEnvCommand(k, c.env[k]) \in WrittenNow(p)
                        /\ c.command \notin WrittenNow(p)

\* C4 as claimed: on a Terminated error the executor reconnects once, clears
\* the cache, exports the variables cached before again, writes a cd to the
\* directory cached before and runs the command exactly once more, the result
\* of that run or the failure of the Reconnect being returned
C4_ReconnectRehydrateRetryOnce ==
    /\ RunDiscipline
    /\ \A p \in Procs :
          runCall[p].phase = "retry" /\ runCall[p].currentDirectory # "" =>
              ("cd " \o runCall[p].currentDirectory) \in WrittenNow(p)

\* C5 as claimed: when the retried command is about to be written, the cached
\* variables and directory are those cached before the Terminated error, and
\* the new shell got an export of each variable and a cd to that directory
C5_RehydratedAsBefore ==
    \A p \in Procs :
        runCall[p].phase = "retry" =>
            /\ sessions[sess[p]].EnvVariables = runCall[p].env
            /\ sessions[sess[p]].CurrentDirectory = runCall[p].currentDirectory
            /\ \A k \in DOMAIN runCall[p].env :
                  SetEnvCommand(k, runCall[p].env[k]) \in WrittenNow(p)
            /\ runCall[p].currentDirectory # "" =>
                  ("cd " \o runCall[p].currentDirectory) \in WrittenNow(p)

\* C6 as claimed: once a command of the sequence failed (its log entry holds
\* an error), the sequence does not go on and the handler returns an error
C6_FailureAborts ==
    \A p \in Procs :
        (\E i \in 1..Len(response[p].Cmd) : response[p].Cmd[i].Error # "") =>
            /\ pc[p] # "loop"
            /\ pc[p] = "done" => outcome[p].err # ""

\* the stdouts of the log entries of a response
Stdouts(resp) == [i \in 1..Len(resp.Cmd) |-> resp.Cmd[i].Stdout]

\* C8 as claimed: the Output of a response returned without error is the
\* stdouts of its log entries joined by a newline
C8_OutputJoinsStdouts ==
    \A p \in Procs :
        outcome[p].returned /\ outcome[p].err = "" =>
            outcome[p].response.Output = Join(Stdouts(outcome[p].response), "\n")

\* the command at hand repeats the one before it
RepeatsCommand(p) ==
    /\ pc[p] = "loop"
    /\ cursor[p] >= 2 /\ cursor[p] <= Len(request[p].Commands)
    /\ Expand(request[p].Commands[cursor[p] - 1].Command) = CurrentCommand(p)

LastEntry(p) == response[p].Cmd[Len(response[p].Cmd)]

\* C9 as claimed: the second of two bare cd X in a row writes nothing to the
\* shell, for any X
C9_SecondCdNotWritten ==
    [][\A p \in Procs :
          RepeatsCommand(p) /\ IsBareCd(CurrentCommand(p)) => shellLog' = shellLog]_vars

\* C9 amended: the second of two bare cd X in a row writes nothing to the
\* shell and leaves the session as it is, provided the first ended without
\* error and without "No such file or directory" in its stdout, and the
\* command does not contain `rm `
C9_SecondCdCached ==
    [][\A p \in Procs :
          /\ RepeatsCommand(p) /\ IsBareCd(CurrentCommand(p))
          /\ LastEntry(p).Error = ""
          /\ ~CheckNoSuchFileOrDirectory(LastEntry(p).Stdout)
          /\ ~Contains(CurrentCommand(p), "rm ")
          => shellLog' = shellLog /\ sessions' = sessions]_vars

\* C9 witness: two bare cd /a in a row are through, with one cd /a written
C9_Witness ==
    \E p \in Procs :
        /\ pc[p] = "loop" /\ cursor[p] = 3
        /\ request[p].Commands[1].Command = "cd /a"
        /\ request[p].Commands[2].Command = "cd /a"
        /\ Len(response[p].Cmd) = 2
        /\ TimesWritten(p, "cd /a") = 1
        /\ sessions[sess[p]].CurrentDirectory = "/a"

\* the command is `export ...` without `&&`
IsExport(command) == HasPrefix(command, "export ") /\ ~Contains(command, "&&")

\* C10 as claimed: after two export K=V in a row, for any K and V, the
\* export was written to the shell at most once
C10_EveryExportOnce ==
    \A p \in Procs :
        /\ pc[p] = "loop" /\ cursor[p] >= 3
        /\ IsExport(Expand(request[p].Commands[cursor[p] - 1].Command))
        /\ request[p].Commands[cursor[p] - 2] = request[p].Commands[cursor[p] - 1]
        => TimesWritten(p, Expand(request[p].Commands[cursor[p] - 1].Command)) <= 1

\* C10 amended: the second of two bare export K=V in a row, V holding no
\* `=`, writes nothing to the shell and leaves EnvVariables as they are
C10_SecondExportNoop ==
    [][\A p \in Procs :
          RepeatsCommand(p) /\ IsBareExport(CurrentCommand(p))
          => /\ shellLog' = shellLog
             /\ sessions'[sess[p]].EnvVariables = sessions[sess[p]].EnvVariables]_vars

\* C10 witness: two export K=v in a row are through, with one export written
\* and K cached
C10_Witness ==
    \E p \in Procs :
        /\ pc[p] = "loop" /\ cursor[p] = 3
        /\ request[p].Commands[1].Command = "export K=v"
        /\ request[p].Commands[2].Command = "export K=v"
        /\ TimesWritten(p, "export K=v") = 1
        /\ "K" \in DOMAIN sessions[sess[p]].EnvVariables
        /\ sessions[sess[p]].EnvVariables["K"] = "v"

(***************************************************************************)
(* Properties of the commands with secrets (SpecSudo)                      *)
(***************************************************************************)
\* the text holds a password
Leaks(text) == Contains(text, SecretPassword) \/ Contains(text, SudoPassword)

\* the texts written to the shell of p's session, in order
ShellTexts(p) == [i \in 1..Len(shellLog[sess[p]]) |-> shellLog[sess[p]][i].text]

\* C7: with ENDLY_SECRET_REVEAL unset, the stdin events, the Stdin and the
\* Error of the log entries and the errors returned carry no password: an
\* executeCommand call keeps the secured command for them, and what it hands
\* to s.run, first and on the retry with sudo, is the secured command with
\* the secrets of the request substituted
C7_SecuredTextOnly ==
    ~secretReveal =>
        /\ \A i \in 1..Len(events) : ~Leaks(events[i])
        /\ \A p \in Procs :
              /\ \A i \in 1..Len(response[p].Cmd) :
                    ~Leaks(response[p].Cmd[i].Stdin) /\ ~Leaks(response[p].Cmd[i].Error)
              /\ ~Leaks(ret[p])
              /\ ~Leaks(outcome[p].err)
              /\ \A i \in 1..Len(outcome[p].response.Cmd) :
                    ~Leaks(outcome[p].response.Cmd[i].Stdin)
              /\ \A i \in 1..Len(frames[p]) :
                    LET f == frames[p][i]
                    IN  f.at # "begin" =>
                          /\ ~Leaks(f.secured)
                          /\ f.insecure = SecretsExpand(f.secured, request[p].Secrets).text
                          /\ f.at = "run" /\ runCall[p].phase # "none" =>
                                runCall[p].command = f.insecure
                          /\ f.at = "sudoRetry" /\ runCall[p].phase # "none" =>
                                runCall[p].command
                                    = commandAsSuperUser(sessions[sess[p]], f.insecure)

\* C7 witness: with the reveal unset, `cat **k**` was written with its secret,
\* retried with sudo and followed by the password exchange, the shell having
\* got the passwords and the events and the log the placeholders
C7_Witness ==
    \E p \in Procs :
        /\ ~secretReveal
        /\ pc[p] = "done" /\ outcome[p].err = ""
        /\ ShellTexts(p) = <<"cat " \o SecretPassword, "sudo cat " \o SecretPassword,
                             SudoPassword>>
        /\ events = <<"cat **k**", "**sudo**">>
        /\ [i \in 1..Len(outcome[p].response.Cmd) |-> outcome[p].response.Cmd[i].Stdin]
               = <<"**sudo**", "cat **k**">>

(***************************************************************************)
(* Properties of the pool (Spec) and of the shared session (SpecShare)     *)
(***************************************************************************)
\* entry k of the history is the return of an open of f without error
OpenReturned(k, f) ==
    /\ history[k].kind = "return" /\ history[k].op = "open"
    /\ history[k].f = f /\ history[k].err = ""

OpenCalled(k, p, f) ==
    /\ history[k].kind = "call" /\ history[k].op = "open"
    /\ history[k].f = f /\ history[k].by = p

\* a call for f is in progress when entry k is added
InProgress(k, f) ==
    \E j \in 1..(k - 1) :
        /\ history[j].kind = "call" /\ history[j].f = f
        /\ \A m \in (j + 1)..(k - 1) : history[m].by # history[j].by

\* the call that entry k is the return of
CallOf(k) ==
    CHOOSE j \in 1..(k - 1) :
        /\ history[j].by = history[k].by /\ history[j].kind = "call"
        /\ \A m \in (j + 1)..(k - 1) : history[m].by # history[k].by

\* the opens of f returned at b and at d follow each other, with no other call
\* for f from the call of the first to the return of the second
SequentialOpens(b, d, f) ==
    /\ b < d
    /\ OpenReturned(b, f) /\ OpenReturned(d, f)
    /\ b < CallOf(d)
    /\ ~InProgress(CallOf(b), f)
    /\ \A k \in (CallOf(b) + 1)..(d - 1) : history[k].f = f => k \in {b, CallOf(d)}

\* C1: of two opens of one fingerprint that follow each other with no close
\* in between, both return the same Session object under the same SessionID,
\* and the second makes no shell: the one shell of the fingerprint is the one
\* the first made or found
C1_SequentialOpensShare ==
    \A f \in Fingerprints :
    \A b, d \in 1..Len(history) :
        SequentialOpens(b, d, f) =>
            /\ history[d].sess = history[b].sess
            /\ sessions[history[d].sess].ID = f
            /\ history[d].shells = history[b].shells
            /\ history[b].sess \in history[b].shells

\* C1 witness: p1 opened f1 with K=v, then p2 opened f1: one Session object,
\* returned to both, with K cached
C1_Witness ==
    /\ Len(history) = 4
    /\ SequentialOpens(2, 4, "f1")
    /\ history[2].by = "p1" /\ history[4].by = "p2"
    /\ history[2].sess = 1 /\ history[4].sess = 1
    /\ Len(sessions) = 1
    /\ "K" \in DOMAIN sessions[1].EnvVariables
    /\ sessions[1].CurrentDirectory = WorkingDirectory

\* C2 as claimed: once two opens of one fingerprint returned, every shell made
\* for the fingerprint is the shell of the pooled session or is closed
C2_ConcurrentOpensOneShell ==
    \A f \in Fingerprints :
        (\E b, d \in 1..Len(history) :
            b # d /\ OpenReturned(b, f) /\ OpenReturned(d, f))
        => \A i \in ShellsOf(f, sessions) : pool[f] = i \/ sessions[i].shell = "closed"

\* what process q holds of the handler it runs
Local(q) ==
    <<pc[q], cursor[q], response[q], frames[q], runCall[q], ret[q], pendingEnv[q],
      outcome[q]>>

\* process p is between the Terminated error of its command and the return
\* of the retried command
Rehydrating(p) == runCall[p].phase \in {"reconnect", "rehydrate", "retry"}

\* C3 as claimed: while a request is between the Terminated error and the
\* return of its retried command, no step of another request on the same
\* session writes to the shell or changes the session
C3_RehydrationExclusive ==
    [][\A p, q \in Procs :
          /\ p # q /\ Rehydrating(p)
          /\ sess[q] = sess[p]
          /\ Local(q)' # Local(q)
          => /\ shellLog'[sess[p]] = shellLog[sess[p]]
             /\ sessions'[sess[p]] = sessions[sess[p]]]_vars

(***************************************************************************)
(* The environment of the options exported on one open session             *)
(***************************************************************************)
\* the values of the variables: plain, with a space, with a tab, with a
\* leading space
EnvValues == {"abc", "a b", "a\tb", " a"}

EnvNames == {"K", "L"}

EnvRequests ==
    {[PlainRequest(<<>>) EXCEPT !.Options.Env = e] :
        e \in UNION {[names -> EnvValues] : names \in (SUBSET EnvNames) \ {{}}}}

InitEnv == InitSequence(EnvRequests, {"u"}, "/w") /\ secretReveal = FALSE

NextEnv ==
    \E p \in Procs :
        \/ RunExtractCommands_Begin(p)
        \/ ApplyCommandOptions_Env(p)
        \/ ApplyCommandOptions_Directory(p)
        \/ RunExtractCommands_Return(p)

SpecEnv == InitEnv /\ [][NextEnv]_vars

(***************************************************************************)
(* Properties of the exported environment (SpecEnv)                        *)
(***************************************************************************)
HasWhitespace(value) == \E i \in 1..Len(value) : IsSpace(CharAt(value, i))

\* the export of name with value, single-quoted exactly when the value
\* contains whitespace
QuotedOnWhitespace(name, value) ==
    IF HasWhitespace(value)
    THEN "export " \o name \o "='" \o value \o "'"
    ELSE "export " \o name \o "=" \o value

\* C11: every export written for a variable K of the options with value V is
\* `export K='V'` when V contains whitespace and `export K=V` otherwise
C11_QuotedOnWhitespace ==
    \A n \in 1..Len(events) :
        \E k \in DOMAIN request["p1"].Options.Env :
            events[n] = QuotedOnWhitespace(k, request["p1"].Options.Env[k])

(***************************************************************************)
(* One command with Success and Errors fragments on one open session       *)
(***************************************************************************)
SuccessFragments == {<<>>, <<"ok">>, <<"done", "ok">>}

ErrorFragments == {<<>>, <<"error">>, <<"fail", "error">>}

ValidateRequests ==
    {PlainRequest(<<NewExtractCommand("make", "", success, errors)>>) :
        success \in SuccessFragments, errors \in ErrorFragments}

InitValidate == InitSequence(ValidateRequests, {"u"}, "") /\ secretReveal = FALSE

NextValidate ==
    \E p \in Procs :
        \/ RunExtractCommands_Begin(p)
        \/ ApplyCommandOptions_Directory(p)
        \/ RunExtractCommands_Execute(p)
        \/ RunExtractCommands_Executed(p)
        \/ RunExtractCommands_Return(p)
        \/ ExecuteCommand_Begin(p)
        \/ ExecuteCommand_AfterRun(p)
        \/ ExecuteCommand_Auth(p)
        \/ ExecuteCommand_Log(p)
        \/ Run_First(p)
        \/ Run_Reconnect(p)
        \/ Run_ChangeDirectory(p)
        \/ Run_Retry(p)

SpecValidate == InitValidate /\ [][NextValidate]_vars

(***************************************************************************)
(* Properties of the validation of the stdout (SpecValidate)               *)
(***************************************************************************)
\* some fragment of the list occurs in the stdout
Occurs(stdout, fragments) ==
    \E i \in 1..Len(fragments) : EscapedContains(stdout, fragments[i])

\* executeCommand returned to runExtractCommands for a command that ran
\* without a transport error and was logged
Validated(p) ==
    /\ pc[p] = "exec"
    /\ frames[p] = <<>>
    /\ Len(response[p].Cmd) = 1
    /\ response[p].Cmd[1].Error = ""

MaxAuthCmds == 2

AuthCommands == {Cmd("sudo make"), Cmd("make")}

\* the requests: the credentials of the target can be loaded (ok) or not
AuthRequests ==
    {[PlainRequest(cs) EXCEPT !.Credentials = [ok |-> ok, password |-> SudoPassword],
                              !.SuperUser = su] :
        cs \in SeqsUpTo(AuthCommands, MaxAuthCmds), su \in BOOLEAN, ok \in BOOLEAN}

InitAuth == InitSequence(AuthRequests, {"u"}, "") /\ secretReveal = FALSE

NextAuth ==
    \E p \in Procs :
        \/ RunExtractCommands_Begin(p)
        \/ ApplyCommandOptions_Directory(p)
        \/ RunExtractCommands_Execute(p)
        \/ RunExtractCommands_Executed(p)
        \/ RunExtractCommands_Return(p)
        \/ ExecuteCommand_Begin(p)
        \/ ExecuteCommand_AfterRun(p)
        \/ ExecuteCommand_Auth(p)
        \/ ExecuteCommand_AuthReturn(p)
        \/ ExecuteCommand_Log(p)
        \/ Run_First(p)
        \/ Run_Reconnect(p)
        \/ Run_ChangeDirectory(p)
        \/ Run_Retry(p)

SpecAuth == InitAuth /\ [][NextAuth]_vars

(***************************************************************************)
(* Properties of the superuser commands (SpecAuth)                         *)
(***************************************************************************)
\* the session of p has SuperUSerAuth set
Authenticated(p) == sess[p] # 0 /\ sessions[sess[p]].SuperUSerAuth

\* the stdout that makes authSuperUserIfNeeded repeat the exchange
RejectedPassword(stdout) ==
    EscapedContains(stdout, "Sorry, try again.") /\ EscapedContains(stdout, "Password")

\* p is in a command of its request (not in the password exchange), at the
\* given place of executeCommand
InCommand(p, at) == Len(frames[p]) = 1 /\ Top(p).at = at

MaxLifeCalls == 3

\* CloseSessionRequest
CloseSessionRequest(sessionID) == [SessionID |-> sessionID]

\* the last call p made was the teardown of the context
InTeardown(p) ==
    \E k \in 1..Len(history) :
        /\ history[k].kind = "call" /\ history[k].by = p /\ history[k].op = "teardown"
        /\ \A m \in (k + 1)..Len(history) :
              ~(history[m].kind = "call" /\ history[m].by = p)

\* the context was closed
TornDown == \E k \in 1..Len(history) : history[k].op = "teardown"

\* the number of calls of a context on which one process alone calls
MaxSoloCalls == 4

\* the calls p may make: more when no other process has called
CallBudget(p) ==
    IF \A k \in 1..Len(history) : history[k].by = p
    THEN MaxSoloCalls
    ELSE MaxLifeCalls

\* a process calls open on the fingerprint f1
Life_Open(p) ==
    /\ pc[p] \in {"idle", "done"}
    /\ Calls < CallBudget(p)
    /\ ~TornDown
    /\ \E transient \in BOOLEAN :
          /\ request' = [request EXCEPT ![p] = OpenSessionRequest("f1", EmptyMap, transient)]
          /\ history' = Append(history, HistoryEntry("call", p, "open", "f1", "", 0, sessions))
    /\ pc' = [pc EXCEPT ![p] = "open"]
    /\ sess' = [sess EXCEPT ![p] = 0]
    /\ outcome' = [outcome EXCEPT ![p] = NoOutcome]
    /\ UNCHANGED <<pool, sessions, shellLog, deferred, lock, events, secretReveal, cursor,
                   response, frames, runCall, ret, pendingEnv>>

\* a process calls close
Life_Close(p) ==
    /\ pc[p] \in {"idle", "done"}
    /\ Calls < CallBudget(p)
    /\ ~TornDown
    /\ request' = [request EXCEPT ![p] = CloseSessionRequest("f1")]
    /\ history' = Append(history, HistoryEntry("call", p, "close", "f1", "", 0, sessions))
    /\ pc' = [pc EXCEPT ![p] = "closeSession"]
    /\ sess' = [sess EXCEPT ![p] = 0]
    /\ outcome' = [outcome EXCEPT ![p] = NoOutcome]
    /\ UNCHANGED <<pool, sessions, shellLog, deferred, lock, events, secretReveal, cursor,
                   response, frames, runCall, ret, pendingEnv>>

\* closeSession returns (response, nil): to the caller of close, or to the
\* teardown that called it
CloseSession_Return(p) ==
    IF InTeardown(p)
    THEN /\ pc' = [pc EXCEPT ![p] = "teardown"]
         /\ UNCHANGED <<outcome, history>>
    ELSE /\ outcome' = [outcome EXCEPT ![p] =
                [returned |-> TRUE, response |-> NewRunResponse(""), err |-> ""]]
         /\ history' = Append(history,
                HistoryEntry("return", p, "close", request[p].SessionID, "", sess[p],
                             sessions))
         /\ pc' = [pc EXCEPT ![p] = "done"]

\* lines 539-540: the session of the ID is looked up, with no lock
CloseSession_Lookup(p) ==
    /\ pc[p] = "closeSession"
    /\ sess' = [sess EXCEPT ![p] = pool[request[p].SessionID]]
    /\ IF pool[request[p].SessionID] = 0
       THEN CloseSession_Return(p)
       ELSE /\ pc' = [pc EXCEPT ![p] = "closeShell"]
            /\ UNCHANGED <<outcome, history>>
    /\ UNCHANGED <<pool, sessions, shellLog, deferred, lock, events, secretReveal, request,
                   cursor, response, frames, runCall, ret, pendingEnv>>

\* line 541: session.MultiCommandSession.Close()
CloseSession_Shell(p) ==
    /\ pc[p] = "closeShell"
    /\ sessions' = [sessions EXCEPT ![sess[p]].shell = "closed"]
    /\ pc' = [pc EXCEPT ![p] = "closeDelete"]
    /\ UNCHANGED <<history, pool, shellLog, deferred, lock, events, secretReveal, sess,
                   request, cursor, response, frames, runCall, ret, pendingEnv, outcome>>

\* CloseSession_Delete that leaves the entry of the pool
CloseSession_Delete_Keep(p) ==
    /\ pc[p] = "closeDelete"
    /\ sessions' = [sessions EXCEPT ![sess[p]].closed = TRUE]
    /\ CloseSession_Return(p)
    /\ UNCHANGED <<pool, shellLog, deferred, lock, events, secretReveal, sess, request,
                   cursor, response, frames, runCall, ret, pendingEnv>>

\* lines 542-547: session.Close(), the entry of the ID is deleted from the
\* pool, and closeSession returns
CloseSession_Delete(p) ==
    /\ pc[p] = "closeDelete"
    /\ sessions' = [sessions EXCEPT ![sess[p]].closed = TRUE]
    /\ pool' = [pool EXCEPT ![request[p].SessionID] = 0]
    /\ CloseSession_Return(p)
    /\ UNCHANGED <<shellLog, deferred, lock, events, secretReveal, sess, request, cursor,
                   response, frames, runCall, ret, pendingEnv>>

\* the context is closed once every handler has returned; the entry of the
\* history keeps the pool, the sessions and the deferred functions it finds
Life_Teardown(p) ==
    /\ \A q \in Procs : pc[q] \in {"idle", "done"}
    /\ Calls < CallBudget(p)
    /\ ~TornDown
    /\ history' = Append(history,
           HistoryEntry("call", p, "teardown", "", "", 0, sessions)
              @@ [pool |-> pool, sessions |-> sessions, deferred |-> deferred])
    /\ pc' = [pc EXCEPT ![p] = "teardown"]
    /\ sess' = [sess EXCEPT ![p] = 0]
    /\ outcome' = [outcome EXCEPT ![p] = NoOutcome]
    /\ UNCHANGED <<pool, sessions, shellLog, deferred, lock, events, secretReveal, request,
                   cursor, response, frames, runCall, ret, pendingEnv>>

\* Context.Close: the deferred functions are run last in, first out: the
\* close of the ssh service (lines 115-117), or the closeSession of the
\* fingerprint (lines 124-128); with none left the teardown is over
Teardown_Next(p) ==
    /\ pc[p] = "teardown"
    /\ IF deferred = <<>>
       THEN /\ history' = Append(history,
                   HistoryEntry("return", p, "teardown", "", "", 0, sessions))
            /\ pc' = [pc EXCEPT ![p] = "done"]
            /\ UNCHANGED <<deferred, sessions, request>>
       ELSE LET d == deferred[Len(deferred)]
            IN  /\ deferred' = SubSeq(deferred, 1, Len(deferred) - 1)
                /\ IF d.kind = "service"
                   THEN /\ sessions' = [sessions EXCEPT ![d.sess].service = "closed"]
                        /\ UNCHANGED <<pc, request>>
                   ELSE /\ request' = [request EXCEPT ![p] = CloseSessionRequest(d.id)]
                        /\ pc' = [pc EXCEPT ![p] = "closeSession"]
                        /\ UNCHANGED sessions
                /\ UNCHANGED history
    /\ UNCHANGED <<pool, shellLog, lock, events, secretReveal, sess, cursor, response,
                   frames, runCall, ret, pendingEnv, outcome>>

NextLife ==
    \E p \in Procs :
        \/ Life_Open(p)
        \/ Open_Begin(p)
        \/ Open_Lookup(p)
        \/ Open_Reuse(p)
        \/ Open_Create(p)
        \/ Open_InitSession(p)
        \/ Open_Lock(p)
        \/ Open_Insert(p)
        \/ Open_DetectOS(p)
        \/ Open_Getwd(p)
        \/ Life_Close(p)
        \/ CloseSession_Lookup(p)
        \/ CloseSession_Shell(p)
        \/ CloseSession_Delete(p)
        \/ Life_Teardown(p)
        \/ Teardown_Next(p)

SpecLife == Init /\ [][NextLife]_vars


(***************************************************************************)
(* Properties of the life of the sessions (SpecLife)                       *)
(***************************************************************************)
\* p takes the step of closeSession that is at the given place
ClosesAt(p, at) == pc[p] = at /\ pc'[p] # at

\* a call of another process for the fingerprint of entry k is in progress
\* when entry k is added
OthersInProgress(k) ==
    \E j \in 1..(k - 1) :
        /\ history[j].kind = "call" /\ history[j].f = history[k].f
        /\ history[j].by # history[k].by
        /\ \A m \in (j + 1)..(k - 1) : history[m].by # history[j].by

\* the close that returned at index k of the history found a session in the
\* pool, no other call for the fingerprint was in progress then, and the next
\* call for the fingerprint was the open that returned at index m
OpenAfterClose(k, m) ==
    /\ k < m
    /\ history[k].kind = "return" /\ history[k].op = "close" /\ history[k].sess # 0
    /\ history[m].kind = "return" /\ history[m].op = "open" /\ history[m].err = ""
    /\ history[m].f = history[k].f
    /\ ~OthersInProgress(k)
    /\ CallOf(m) > k
    /\ \A j \in (k + 1)..(m - 1) : history[j].f = history[k].f => j = CallOf(m)

\* C14: when a close of the ID of a pooled session returns, the shell and the
\* session are closed and the pool has no entry for the ID, and the next
\* open of the fingerprint, no other call for it being in progress, returns
\* another session, one whose shell did not exist when the close returned;
\* a close of an ID with no entry changes neither the pool nor a session and
\* returns no error
C14_CloseRemoves ==
    /\ [][\A p \in Procs :
             /\ (ClosesAt(p, "closeDelete") /\ ~InTeardown(p))
                   => /\ sessions'[sess[p]].shell = "closed"
                      /\ sessions'[sess[p]].closed
                      /\ pool'[request[p].SessionID] = 0
             /\ (ClosesAt(p, "closeSession") /\ ~InTeardown(p)
                   /\ pool[request[p].SessionID] = 0)
                   => /\ pool' = pool /\ sessions' = sessions
                      /\ outcome'[p].returned /\ outcome'[p].err = ""]_vars
    /\ [](\A k \in 1..Len(history), m \in 1..Len(history) :
             OpenAfterClose(k, m)
                => /\ history[m].sess # history[k].sess
                   /\ history[m].sess \notin history[k].shells
                   /\ sessions[history[m].sess].shell # "none")

\* a session was opened, closed, and the fingerprint opened again: the
\* second open returned a second session, with its own shell, open
C14_Witness ==
    \E k \in 1..Len(history), m \in 1..Len(history) :
        /\ OpenAfterClose(k, m)
        /\ history[m].sess # history[k].sess
        /\ sessions[history[k].sess].shell = "closed"
        /\ sessions[history[m].sess].shell = "open"
        /\ pool[history[m].f] = history[m].sess


\* the entry of the history of the call of the teardown
TeardownCall ==
    history[CHOOSE k \in 1..Len(history) :
                history[k].kind = "call" /\ history[k].op = "teardown"]

\* the teardown of the context returned
TeardownOver ==
    \E k \in 1..Len(history) : history[k].kind = "return" /\ history[k].op = "teardown"

\* session i was made by an open that was not Transient: its closeSession was
\* deferred to the teardown
Scheduled(i) ==
    \E n \in 1..Len(TeardownCall.deferred) :
        /\ TeardownCall.deferred[n].kind = "closeSession"
        /\ TeardownCall.deferred[n].sess = i

\* when the teardown was called no fingerprint had two sessions with an open
\* shell (as two opens at the same time leave them)
OneShellEach ==
    \A i, j \in 1..Len(TeardownCall.sessions) :
        (/\ i # j
         /\ TeardownCall.sessions[i].ID = TeardownCall.sessions[j].ID
         /\ TeardownCall.sessions[i].shell = "open")
            => TeardownCall.sessions[j].shell # "open"

\* C15: in the teardown of the context a session leaves the pool with its
\* shell closed already and an ssh service is closed after the shell made on
\* it; once the teardown is over every session made by an open that was not
\* Transient has its shell closed and is not in the pool, and every session
\* made by a Transient open that was in the pool with its shell open is so
\* still
C15_TeardownSparesTransient ==
    /\ [][(TornDown /\ OneShellEach) =>
             /\ \A f \in Fingerprints :
                   (pool[f] # 0 /\ pool'[f] = 0) => sessions[pool[f]].shell = "closed"
             /\ \A i \in 1..Len(sessions) :
                   (sessions[i].service = "open" /\ sessions'[i].service = "closed")
                      => sessions[i].shell # "open"]_vars
    /\ []((TeardownOver /\ OneShellEach) =>
             \A i \in 1..Len(sessions) :
                /\ (Scheduled(i) /\ sessions[i].shell # "none")
                      => /\ sessions[i].shell = "closed"
                         /\ \A f \in Fingerprints : pool[f] # i
                /\ (/\ ~Scheduled(i)
                    /\ TeardownCall.sessions[i].shell = "open"
                    /\ TeardownCall.pool[sessions[i].ID] = i)
                      => /\ sessions[i].shell = "open"
                         /\ pool[sessions[i].ID] = i)


(***************************************************************************)
(* One command with CheckError on one open session                         *)
(***************************************************************************)
CheckCommands ==
    {Cmd("false"),
     [NewExtractCommand("make", "", <<"ok">>, <<"error">>) EXCEPT !.Extract = TRUE]}

CheckRequests ==
    {[PlainRequest(<<c>>) EXCEPT !.CheckError = check] :
        c \in CheckCommands, check \in BOOLEAN}

InitCheck == InitSequence(CheckRequests, {"u"}, "") /\ secretReveal = FALSE

NextCheck ==
    \E p \in Procs :
        \/ RunExtractCommands_Begin(p)
        \/ ApplyCommandOptions_Directory(p)
        \/ RunExtractCommands_Execute(p)
        \/ RunExtractCommands_Executed(p)
        \/ RunExtractCommands_Return(p)
        \/ ExecuteCommand_Begin(p)
        \/ ExecuteCommand_AfterRun(p)
        \/ ExecuteCommand_Auth(p)
        \/ ExecuteCommand_Log(p)
        \/ Run_First(p)
        \/ Run_Reconnect(p)
        \/ Run_ChangeDirectory(p)
        \/ Run_Retry(p)

SpecCheck == InitCheck /\ [][NextCheck]_vars

(***************************************************************************)
(* Properties of the check of the exit status (SpecCheck)                  *)
(***************************************************************************)
\* the stdout holds one of the terminators assembled for the command
Terminated(frame) ==
    \E i \in 1..Len(frame.terminators) : Contains(frame.stdout, frame.terminators[i])

\* p takes the step of executeCommand that follows the stdout of the command
AfterStdout(p) ==
    /\ frames[p] # <<>> /\ Top(p).at = "auth"
    /\ frames'[p] # <<>> /\ frames'[p][Len(frames'[p])].at \in {"echo", "log"}

\* p takes the step of executeCommand that follows the answer to `echo $?`
AfterEcho(p) ==
    /\ frames[p] # <<>> /\ Top(p).at = "echo" /\ runCall[p].phase = "done"
    /\ frames'[p] # frames[p]

\* C16: with CheckError and a stdout that holds none of the terminators of
\* the command, and only then, `echo $?` is run next on the session of the
\* command; when it prints a status N that is not 0, executeCommand returns
\* "exit code: N, command: " with the secured command, the log of the
\* response as it was (no entry added, no validation, no extraction)
C16_ExitCodeChecked ==
    [][\A p \in Procs :
          /\ AfterStdout(p)
                => /\ (request[p].CheckError /\ ~Terminated(frames'[p][Len(frames'[p])]))
                         <=> frames'[p][Len(frames'[p])].at = "echo"
                   /\ frames'[p][Len(frames'[p])].at = "echo"
                         => /\ runCall'[p].phase = "first"
                            /\ runCall'[p].command = "echo $?"
          /\ (AfterEcho(p) /\ runCall[p].err = "" /\ TrimSpace(runCall[p].stdout) = "1")
                => /\ Len(frames'[p]) = Len(frames[p]) - 1
                   /\ ret'[p] = "exit code: 1, command: " \o Top(p).secured
                   /\ response'[p].Cmd = response[p].Cmd]_vars

\* `false` with CheckError: `echo $?` was written after it to the shell of
\* the session and printed 1; the request failed with the exit code, nothing
\* logged
C16_Witness ==
    /\ request["p1"].CheckError
    /\ request["p1"].Commands[1].Command = "false"
    /\ outcome["p1"].returned
    /\ outcome["p1"].err = "exit code: 1, command: false"
    /\ response["p1"].Cmd = <<>>
    /\ Len(shellLog[1]) = 2
    /\ shellLog[1][1].text = "false" /\ shellLog[1][2].text = "echo $?"


(***************************************************************************)
(* Properties of the password exchange (SpecAuth)                          *)
(***************************************************************************)
\* C17: the password exchange enters executeCommand at most once for a
\* command: under the executeCommand of a command of the request there is
\* never more than the one executeCommand of the exchange
C17_ExchangeEntersOnce == \A p \in Procs : Len(frames[p]) <= 2


\* C18: SuperUSerAuth is set on a session only if the sudo password was
\* written to the shell of the session
C18_AuthMeansPasswordWritten ==
    \A i \in 1..Len(sessions) :
        sessions[i].SuperUSerAuth
            => \E n \in 1..Len(shellLog[i]) : shellLog[i][n].text = SudoPassword


\* C19: every session in the pool has a shell that was opened and is not
\* closed
C19_PooledSessionsLive ==
    \A f \in Fingerprints :
        pool[f] # 0 => /\ sessions[pool[f]].shell = "open"
                       /\ ~sessions[pool[f]].closed


(***************************************************************************)
(* Properties of the detection of the operating system (Spec)              *)
(***************************************************************************)
\* detectOperatingSystem has returned the descriptor of session i and set
\* its Username
Detected(i) == sessions[i].Username # ""

\* C20: a session is in the pool only with its operating system detected,
\* and every session an open returns without error has it detected
C20_DetectedBeforePooled ==
    /\ \A f \in Fingerprints : pool[f] # 0 => Detected(pool[f])
    /\ \A k \in 1..Len(history) :
          (OpenReturned(k, history[k].f) /\ history[k].sess # 0)
             => Detected(history[k].sess)


(***************************************************************************)
(* Commands that change the directory on one open session                  *)
(***************************************************************************)
\* a bare cd, a cd of a file path, a pushd, a compound cd, an rm of the
\* current directory, a plain command
CwdCommands ==
    {Cmd("cd /a"), Cmd("cd /a.b/c.d"), Cmd("pushd /b"), Cmd("cd /c && ls"),
     Cmd("rm -r /w"), Cmd("ls")}

CwdRequests == {PlainRequest(cs) : cs \in SeqsUpTo(CwdCommands, MaxCmds)}

InitCwd == InitSequence(CwdRequests, {"u"}, WorkingDirectory) /\ secretReveal = FALSE

NextCwd ==
    \E p \in Procs :
        \/ RunExtractCommands_Begin(p)
        \/ ApplyCommandOptions_Directory(p)
        \/ RunExtractCommands_Cd(p)
        \/ RunExtractCommands_Execute(p)
        \/ RunExtractCommands_Executed(p)
        \/ RunExtractCommands_Return(p)
        \/ ExecuteCommand_Begin(p)
        \/ ExecuteCommand_AfterRun(p)
        \/ ExecuteCommand_Auth(p)
        \/ ExecuteCommand_Log(p)
        \/ Run_First(p)
        \/ Run_Reconnect(p)
        \/ Run_ChangeDirectory(p)
        \/ Run_Retry(p)

SpecCwd == InitCwd /\ [][NextCwd]_vars

(***************************************************************************)
(* Properties of the cached directory (SpecCwd)                            *)
(***************************************************************************)
\* C21: a cached CurrentDirectory that is not empty is the working directory
\* of the remote shell of the session
C21_CachedDirectoryIsActual ==
    \A i \in 1..Len(sessions) :
        sessions[i].CurrentDirectory # ""
            => sessions[i].CurrentDirectory = sessions[i].cwd


\* process p takes the step of runExtractCommands for a bare cd
CdStep(p) ==
    /\ pc[p] = "loop"
    /\ cursor[p] <= Len(request[p].Commands)
    /\ IsBareCd(CurrentCommand(p))
    /\ Len(response'[p].Cmd) = Len(response[p].Cmd) + 1

\* C22: a bare `cd D` leaves CurrentDirectory at the normalized D when the cd
\* was written and answered without error and without "No such file or
\* directory", and leaves it at the value it had otherwise
C22_CdCachedOnSuccessOnly ==
    [][\A p \in Procs :
          CdStep(p) =>
             LET command == CurrentCommand(p)
                 before  == ResetOnRm(sessions[sess[p]], command)
                 D       == NormalizeDirectory(TrimSpace(SubSeq(command, 4, Len(command))))
                 entry   == response'[p].Cmd[Len(response'[p].Cmd)]
                 wrote   == shellLog'[sess[p]] # shellLog[sess[p]]
             IN  sessions'[sess[p]].CurrentDirectory =
                    IF wrote /\ entry.Error = ""
                             /\ ~Contains(entry.Stdout, "No such file or directory")
                    THEN D
                    ELSE before.CurrentDirectory]_vars

\* `cd /a` was answered with "No such file or directory" and the cached
\* directory is still the one of the open
C22_Witness ==
    \E p \in Procs :
        /\ pc[p] = "loop" /\ cursor[p] = 2
        /\ Len(response[p].Cmd) = 1
        /\ LastEntry(p).Stdin = "cd /a"
        /\ CheckNoSuchFileOrDirectory(LastEntry(p).Stdout)
        /\ TimesWritten(p, "cd /a") = 1
        /\ sessions[sess[p]].CurrentDirectory = WorkingDirectory


(***************************************************************************)
(* Properties of the cached variables (SpecSeq)                            *)
(***************************************************************************)
\* process p takes the step of runExtractCommands for a bare export
ExportStep(p) ==
    /\ pc[p] = "loop"
    /\ cursor[p] <= Len(request[p].Commands)
    /\ IsBareExport(CurrentCommand(p))
    /\ Len(response'[p].Cmd) = Len(response[p].Cmd) + 1

\* C23: a bare export whose command returned an error leaves the cached
\* variables of the session as they were
C23_ExportCachedOnSuccessOnly ==
    [][\A p \in Procs :
          /\ ExportStep(p)
          /\ response'[p].Cmd[Len(response'[p].Cmd)].Error # ""
          => sessions'[sess[p]].EnvVariables = sessions[sess[p]].EnvVariables]_vars


(***************************************************************************)
(* Commands under a When that is false                                     *)
(***************************************************************************)
Unless(text) == NewExtractCommand(text, FalseWhen, <<>>, <<>>)

WhenCommands ==
    {Unless("cd /a"), Unless("export K=v"), Unless("rm -r /w"), Unless("cd /c && ls"),
     Unless("export K=a=b"), Unless("ls"), Cmd("export K=v"), Cmd("ls")}

WhenRequests ==
    {[PlainRequest(cs) EXCEPT !.Options = o] :
        cs \in SeqsUpTo(WhenCommands, MaxCmds), o \in SeqOptions}

InitWhen == InitSequence(WhenRequests, {"u"}, WorkingDirectory) /\ secretReveal = FALSE

SpecWhen == InitWhen /\ [][NextSeq]_vars

\* process p is at a command of its request whose When is false
UnderFalseWhen(p) ==
    /\ pc[p] \in {"loop", "exec"}
    /\ cursor[p] >= 1 /\ cursor[p] <= Len(request[p].Commands)
    /\ request[p].Commands[cursor[p]].When = FalseWhen

\* C24: a command whose When is false writes nothing to the shell, leaves
\* the cached directory, the cached variables and response.Output as they
\* were, and adds to the log nothing but an entry with an empty stdout
C24_FalseWhenSkips ==
    [][\A p \in Procs :
          UnderFalseWhen(p) =>
             /\ shellLog' = shellLog
             /\ sessions'[sess[p]].CurrentDirectory = sessions[sess[p]].CurrentDirectory
             /\ sessions'[sess[p]].EnvVariables = sessions[sess[p]].EnvVariables
             /\ response'[p].Output = response[p].Output
             /\ \/ response'[p].Cmd = response[p].Cmd
                \/ /\ Len(response'[p].Cmd) = Len(response[p].Cmd) + 1
                   /\ SubSeq(response'[p].Cmd, 1, Len(response[p].Cmd)) = response[p].Cmd
                   /\ response'[p].Cmd[Len(response'[p].Cmd)].Stdout = ""]_vars


(***************************************************************************)
(* Properties of an open that fails (Spec)                                 *)
(***************************************************************************)
\* the last entry of the history is the return of an open of f with an
\* error, no other call for f being in progress during that open
OpenFailedAlone(f) ==
    LET k == Len(history)
    IN  /\ k >= 2
        /\ history[k].kind = "return" /\ history[k].op = "open"
        /\ history[k].f = f /\ history[k].err # ""
        /\ CallOf(k) = k - 1
        /\ ~InProgress(k - 1, f)

\* C25: when an open of a fingerprint returns an error, the pool holds for
\* the fingerprint no session that did not exist when the open was called
C25_FailedOpenPoolsNothing ==
    \A f \in Fingerprints :
        OpenFailedAlone(f) =>
            pool[f] = 0 \/ pool[f] \in history[Len(history) - 1].shells


(***************************************************************************)
(* The requests of the pubsub package: Init of PushRequest and PullRequest *)
(***************************************************************************)
defaultTimeoutMs == 5000

\* the storage behind a Source: a URL names a folder, a file, or nothing
FolderURL  == "mem://localhost/data"
FileURL    == "mem://localhost/data/messages.json"
MissingURL == "mem://localhost/none"

ErrStorage == "storage: not found"

\* the messages loadMessages makes of the content of the file
loadMessages(URL) == <<"loaded">>

\* PushRequest.Init on request r (a nil Source is ""): the request after it
\* and the error returned
PushRequestInit(r) ==
    IF r.isInitialized
    THEN [request |-> r, err |-> ""]
    ELSE IF r.Source = MissingURL
    THEN [request |-> r, err |-> ErrStorage]
    ELSE IF r.Source = FolderURL
    THEN [request |-> r, err |-> ""]
    ELSE LET loaded == IF r.Source # ""
                       THEN [r EXCEPT !.Messages = loadMessages(r.Source)]
                       ELSE r
         IN  [request |-> [loaded EXCEPT !.TimeoutMs =
                               IF @ = 0 THEN defaultTimeoutMs ELSE @],
              err |-> ""]

\* PullRequest.Init on request r
PullRequestInit(r) ==
    [request |-> [r EXCEPT !.TimeoutMs = IF @ = 0 THEN defaultTimeoutMs ELSE @],
     err |-> ""]

PushRequests ==
    {[Dest |-> "topic", Messages |-> ms, Source |-> src, TimeoutMs |-> t,
      UDF |-> "", isInitialized |-> FALSE] :
        ms \in {<<>>, <<"m">>}, src \in {"", FolderURL, FileURL, MissingURL},
        t \in {0, 100}}

PullRequests ==
    {[Source |-> "subscription", TimeoutMs |-> t, Count |-> c, UDF |-> ""] :
        t \in {0, 100}, c \in {0, 1}}

\* p1 holds a PushRequest and p2 a PullRequest, as they were made
InitPubsub ==
    /\ pool = [f \in Fingerprints |-> 0]
    /\ sessions = <<>>
    /\ shellLog = <<>>
    /\ deferred = <<>>
    /\ lock = ""
    /\ events = <<>>
    /\ secretReveal = FALSE
    /\ pc = [p \in Procs |-> "made"]
    /\ sess = [p \in Procs |-> 0]
    /\ \E push \in PushRequests, pull \in PullRequests :
          request = [p \in Procs |-> IF p = "p1" THEN push ELSE pull]
    /\ cursor = [p \in Procs |-> 0]
    /\ response = [p \in Procs |-> NewRunResponse("")]
    /\ frames = [p \in Procs |-> <<>>]
    /\ runCall = [p \in Procs |-> RunIdle]
    /\ ret = [p \in Procs |-> ""]
    /\ pendingEnv = [p \in Procs |-> {}]
    /\ outcome = [p \in Procs |-> NoOutcome]
    /\ history = <<>>

\* Init is called on the request of p, a first time and again
Initialized(p, r) ==
    /\ pc[p] \in {"made", "initialized"}
    /\ request' = [request EXCEPT ![p] = r.request]
    /\ outcome' = [outcome EXCEPT ![p] =
           [returned |-> TRUE, response |-> NewRunResponse(""), err |-> r.err]]
    /\ pc' = [pc EXCEPT ![p] = IF pc[p] = "made" THEN "initialized" ELSE "again"]
    /\ UNCHANGED <<history, pool, sessions, shellLog, deferred, lock, events, secretReveal,
                   sess, cursor, response, frames, runCall, ret, pendingEnv>>

PushRequest_Init(p) ==
    /\ "Dest" \in DOMAIN request[p]
    /\ Initialized(p, PushRequestInit(request[p]))

PullRequest_Init(p) ==
    /\ "Count" \in DOMAIN request[p]
    /\ Initialized(p, PullRequestInit(request[p]))

NextPubsub == \E p \in Procs : PushRequest_Init(p) \/ PullRequest_Init(p)

SpecPubsub == InitPubsub /\ [][NextPubsub]_vars

\* C26: a request whose Init has returned without error has a TimeoutMs that
\* is not zero
C26_TimeoutSetByInit ==
    \A p \in Procs :
        (pc[p] # "made" /\ outcome[p].returned /\ outcome[p].err = "")
            => request[p].TimeoutMs # 0

=============================================================================
